---- MODULE Spec2Model ----
(***************************************************************************)
(* Verification model of PDFInvExtractor.                                  *)
(*                                                                         *)
(*   Spec        the ingestion pipeline of claude_InvDataEx.py             *)
(*               (handle_file, is_file_stable, process_pdf, move_file)     *)
(*   SpecLegacy  the ingestion pipeline of InvDataEx.py                    *)
(*                                                                         *)
(* Every specification runs on the same variables; the variables of the    *)
(* parts a specification does not exercise stay at their initial values.   *)
(***************************************************************************)
EXTENDS Integers, Sequences, FiniteSets, TLC

\* ------------------------------------------------------------------------
\* Bounds of the model
\* ------------------------------------------------------------------------
\* creation events the environment produces in one behaviour
MaxEvents == 3
\* number of chunks the writer of a file appends before the file is complete
FullSize == 2
\* iterations of the wrapper's supervision loop in one behaviour
MaxTicks == 50
\* runs of the uploader in one behaviour
MaxRuns == 2
\* pages of one document
MaxPages == 2
\* text lines of one document, all pages together
MaxLines == 4
\* lines of a first page drawn freely
MaxHeaderLines == 3
\* address lines of a party block
MaxAddressLines == 4
\* documents parsed one after the other
MaxDocs == 2
\* columns of the remote table
MaxColumns == 2
\* headers of a CSV file
MaxCsvHeaders == 2
\* full batches a file holds at most
MaxBatches == 2
\* batch_size in upload_csv_to_grist
batch_size == 100

\* ------------------------------------------------------------------------
\* Ingestion pipeline: the documents
\* ------------------------------------------------------------------------
Files == {"a.pdf", "b.pdf"}

\* retries=3 of is_file_stable
Retries == 3

\* calendar of datetime.strptime(..., "%d-%b-%y")
DaysInMonth ==
    [Jan |-> 31, Feb |-> 28, Mar |-> 31, Apr |-> 30, May |-> 31, Jun |-> 30,
     Jul |-> 31, Aug |-> 31, Sep |-> 30, Oct |-> 31, Nov |-> 30, Dec |-> 31]

\* %y: 69..99 are 1969..1999, 0..68 are 2000..2068
FullYear(yy) == IF yy >= 69 THEN 1900 + yy ELSE 2000 + yy

IsLeap(y) == (y % 4 = 0 /\ y % 100 # 0) \/ y % 400 = 0

\* The invoice date text is "" (the empty tuple) or a token of the shape
\* \d{1,2}-[A-Za-z]{3}-\d{2}, held as <<day, month letters, yy>>.
\* Strptime is TRUE when datetime.strptime accepts the text, FALSE when it
\* raises ValueError.
Strptime(text) ==
    /\ Len(text) = 3
    /\ text[2] \in DOMAIN DaysInMonth
    /\ text[1] >= 1
    /\ text[1] <= (IF text[2] = "Feb" /\ IsLeap(FullYear(text[3]))
                   THEN 29 ELSE DaysInMonth[text[2]])

\* What a PDF holds, as far as process_pdf can tell:
\*   fault "none"        every page has a text layer
\*   fault "corrupt"     pdfplumber.open / pages[0].extract_text() raises
\*   fault "blank_page"  page 1 has text, a later page has no text layer:
\*                       extract_text() is None and .splitlines() raises
\*   date                the string extract_header_from_pdf returns as
\*                       invoice_date
Docs ==
    { [fault |-> "none",       date |-> <<5, "Apr", 25>>],
      [fault |-> "none",       date |-> <<>>],
      [fault |-> "none",       date |-> <<31, "Apr", 25>>],
      [fault |-> "corrupt",    date |-> <<>>],
      [fault |-> "blank_page", date |-> <<29, "Feb", 24>>] }

NoDoc == [fault |-> "none", date |-> <<>>]

NoFile == [present |-> FALSE, size |-> 0, doc |-> NoDoc]

\* the summary of one call of handle_file
NoRun ==
    [file |-> "", called |-> FALSE, missing |-> FALSE, read |-> -1,
     doc |-> NoDoc, result |-> "none", wrote |-> {}, moved |-> "none"]

VARIABLES
    fs,          \* the input directory: file name -> [present, size, doc]
    queue,       \* files waiting for handle_file (os.listdir / on_created)
    created,     \* creation events per file so far
    handled,     \* calls of handle_file per file so far
    pc,          \* where the handler is
    cur,         \* file_path of the running handle_file
    seen,        \* sizes is_file_stable has read so far in this call
    run,         \* summary of the running / last call of handle_file
    archiveDir,  \* names in ARCHIVE_DIR
    errorDir,    \* names in ERROR_DIR
    outputDir,   \* names in OUTPUT_DIR
    crashed      \* an exception left handle_file: the ingest loop is dead

\* wrapper.py
VARIABLES
    wpc,               \* "boot", "loop" or "stopped"
    claude_process,    \* pid of the last extractor started, 0 for None
    uploader_process,  \* pid of the last uploader started, 0 for None
    procs,             \* every process started so far: pid -> script
    alive,             \* pids p with p.poll() is None
    current_time,      \* time.time() of the last loop iteration
    last_upload_time,
    cycle              \* what the last iteration did about the upload

\* grist_uploader.py
VARIABLES
    remoteHeader,    \* the remote header table: invoice value -> rows
    hasInvoiceCol,   \* the table has a column labelled "Invoice Number"
    added,           \* header rows this uploader has added, per invoice
    logExists,       \* processed_invoices.log exists
    logLines,        \* its lines
    csvDir,          \* CSV_DIRECTORY_PATH: prefix -> the pair of CSV files
    successDir,      \* files moved to the Success folder
    rejectedDir,     \* files moved to the Rejected folder
    lastUpload,      \* what the last pair sent to the remote tables
    upc,             \* "idle" or "pairs" (inside the loop of main)
    processed,       \* processed_invoice_numbers of the running main
    todo,            \* prefixes the loop of main has still to visit
    runs             \* runs of main started so far

\* extract_items_from_pdf
VARIABLES
    ipc,                     \* "pages" (inside the loop over pdf.pages) or "done"
    pagesRead,               \* pages the loop has taken so far
    linesRead,               \* text lines of those pages
    items,                   \* the list items
    processed_item_numbers,
    finalized,               \* item numbers in the order they were appended
    dupSkipped,              \* item numbers met again and skipped
    warnings,                \* what the function logged above DEBUG level
    page,                    \* the lines of the page taken last
    roles,                   \* per line of that page, what the loops did with it
    docs,                    \* documents opened so far
    docText,                 \* the pages taken of the document being parsed
    earlier                  \* item numbers the earlier documents processed

\* extract_header_from_pdf (claude_InvDataEx.py), header parsing of
\* process_pdf (InvDataEx.py)
VARIABLES
    hpc,                     \* "idle", "read" (lines at hand), "done" or "legacy_done"
    hlines,                  \* the lines the header is taken from
    hdr                      \* what the header extraction gave

headerVars == << hpc, hlines, hdr >>

\* grist_uploader.py: create_column_mapping_from_grist
VARIABLES
    mpc,                     \* "idle" or "mapped"
    columns_data,            \* the columns of the remote table: label and id
    csv_headers,             \* the headers of the CSV file
    mapping                  \* header -> column id, "" for a header left out

mapVars == << mpc, columns_data, csv_headers, mapping >>

\* extract_items_from_pdf, the two while loops of a page step by step
VARIABLES
    lpc,                     \* "idle", "item" (item loop), "look" (look-ahead), "done"
    loop_lines,              \* lines of the page
    loop_idx,                \* idx
    loop_next_idx,           \* next_idx
    loop_end_idx,            \* item_end_idx
    loop_description,        \* description_lines and the positions appended
    loop_st                  \* items, processed_item_numbers and what was done per line

loopVars ==
    << lpc, loop_lines, loop_idx, loop_next_idx, loop_end_idx, loop_description, loop_st >>

\* grist_uploader.py: upload_csv_to_grist called by main for one pair, batch by batch
VARIABLES
    bpc,                     \* "idle", "batch" (in the for loop), "returned", "move", "done"
    bfile,                   \* the file at hand: "header" or "items"
    brecords,                \* records of each file, in file order
    bi,                      \* i of "for i in range(0, total_records_in_file, batch_size)"
    bcalls,                  \* per file the calls of uploader.add_records: batch and outcome
    bsuccess,                \* header_success and items_success, "unset" before
    bmoved,                  \* moved_header and moved_items
    blogged                  \* append_invoice_to_log and processed_invoice_numbers.add ran

batchVars == << bpc, bfile, brecords, bi, bcalls, bsuccess, bmoved, blogged >>

ingestVars ==
    << fs, queue, created, handled, pc, cur, seen, run,
       archiveDir, errorDir, outputDir, crashed >>

wrapperVars ==
    << wpc, claude_process, uploader_process, procs, alive, current_time,
       last_upload_time, cycle >>

uploadVars ==
    << remoteHeader, hasInvoiceCol, added, logExists, logLines, csvDir,
       successDir, rejectedDir, lastUpload, upc, processed, todo, runs >>

itemVars ==
    << ipc, pagesRead, linesRead, items, processed_item_numbers, finalized, dupSkipped,
       warnings, page, roles, docs, docText, earlier >>

vars ==
    << ingestVars, wrapperVars, uploadVars, itemVars, headerVars, mapVars, loopVars, batchVars >>

\* a step of the ingestion pipeline leaves the other programs alone
IngestOnly ==
    UNCHANGED << wrapperVars, uploadVars, itemVars, headerVars, mapVars, loopVars, batchVars >>

RECURSIVE SumOver(_, _)
SumOver(f, S) ==
    IF S = {} THEN 0
    ELSE LET x == CHOOSE y \in S : TRUE IN f[x] + SumOver(f, S \ {x})

InitIngest ==
    /\ fs = [f \in Files |-> NoFile]
    /\ queue = <<>>
    /\ created = [f \in Files |-> 0]
    /\ handled = [f \in Files |-> 0]
    /\ pc = "idle"
    /\ cur = ""
    /\ seen = <<>>
    /\ run = NoRun
    /\ archiveDir = {}
    /\ errorDir = {}
    /\ outputDir = {}
    /\ crashed = FALSE

\* ------------------------------------------------------------------------
\* The environment of the input directory
\* ------------------------------------------------------------------------
\* A writer creates f in INPUT_DIR; the listing / the watchdog observer hands
\* the path to handle_file once.
CreateFile(f, doc, size) ==
    /\ ~fs[f].present
    /\ SumOver(created, Files) < MaxEvents
    /\ fs' = [fs EXCEPT ![f] = [present |-> TRUE, size |-> size, doc |-> doc]]
    /\ created' = [created EXCEPT ![f] = @ + 1]
    /\ queue' = Append(queue, f)
    /\ UNCHANGED << handled, pc, cur, seen, run, archiveDir, errorDir,
                    outputDir, crashed >>
    /\ IngestOnly

\* The writer appends the next chunk.
AppendFile(f) ==
    /\ fs[f].present
    /\ fs[f].size < FullSize
    /\ fs' = [fs EXCEPT ![f].size = @ + 1]
    /\ UNCHANGED << queue, created, handled, pc, cur, seen, run, archiveDir,
                    errorDir, outputDir, crashed >>
    /\ IngestOnly

\* Somebody else deletes or moves the file away.
RemoveFile(f) ==
    /\ fs[f].present
    /\ fs' = [fs EXCEPT ![f] = NoFile]
    /\ UNCHANGED << queue, created, handled, pc, cur, seen, run, archiveDir,
                    errorDir, outputDir, crashed >>
    /\ IngestOnly

\* ------------------------------------------------------------------------
\* claude_InvDataEx.py
\* ------------------------------------------------------------------------
\* name move_file gives the file in the target directory
Stamped(f) == [base |-> f, timestamp |-> TRUE]

\* shutil.move inside move_file: raises when the source is gone or the
\* operating system refuses (oserr)
MoveRaises(f, oserr) == ~fs[f].present \/ oserr

\* is_file_stable without the test for an empty file
StableSizesAnySize(last_size, current_size) ==
    current_size = last_size

\* the test of is_file_stable on one poll
StableSizes(last_size, current_size) ==
    current_size = last_size /\ current_size > 0

\* is_file_stable taking a vanished file for a stable one
OnFileNotFoundStable == TRUE

\* what is_file_stable returns from its except FileNotFoundError branch
OnFileNotFound == FALSE

LastSize == IF seen = <<>> THEN -1 ELSE seen[Len(seen)]

\* process_existing_files / PDFHandler.on_created: the next path goes to
\* handle_file
StartHandle ==
    /\ pc = "idle"
    /\ ~crashed
    /\ queue # <<>>
    /\ cur' = Head(queue)
    /\ queue' = Tail(queue)
    /\ handled' = [handled EXCEPT ![Head(queue)] = @ + 1]
    /\ seen' = <<>>
    /\ run' = [NoRun EXCEPT !.file = Head(queue)]
    /\ pc' = "exists"
    /\ UNCHANGED << fs, created, archiveDir, errorDir, outputDir, crashed >>
    /\ IngestOnly

\* handle_file: if not os.path.exists(file_path): return
CheckExists ==
    /\ pc = "exists"
    /\ IF fs[cur].present
       THEN /\ pc' = "poll"
            /\ run' = run
       ELSE /\ pc' = "idle"
            /\ run' = [run EXCEPT !.missing = TRUE]
    /\ UNCHANGED << fs, queue, created, handled, cur, seen, archiveDir,
                    errorDir, outputDir, crashed >>
    /\ IngestOnly

\* is_file_stable: one iteration of the retry loop, and what handle_file does
\* with the value returned
PollSize ==
    /\ pc = "poll"
    /\ IF ~fs[cur].present
       THEN \* FileNotFoundError
            /\ run' = [run EXCEPT !.missing = TRUE]
            /\ pc' = IF OnFileNotFound THEN "header" ELSE "idle"
            /\ seen' = seen
       ELSE /\ run' = run
            /\ seen' = Append(seen, fs[cur].size)
            /\ pc' = IF StableSizes(LastSize, fs[cur].size) THEN "header"
                     ELSE IF Len(seen) + 1 = Retries THEN "idle"
                     ELSE "poll"
    /\ UNCHANGED << fs, queue, created, handled, cur, archiveDir, errorDir,
                    outputDir, crashed >>
    /\ IngestOnly

\* The date text the header keeps, and the name part of the CSV files:
\* the invoice date when strptime accepts it, else the current date.
DateFormat(doc) == IF Strptime(doc.date) THEN "invoice_date" ELSE "today"

CsvName(f, doc, part) == [base |-> f, date |-> DateFormat(doc), part |-> part]

\* Does process_pdf give up on this invoice date?  The except ValueError
\* branch logs a warning and goes on with the current date.
DateRejected(doc) == FALSE

\* handle_file archiving whatever process_pdf returned
MoveTargetArchive(success) == "move_archive"

\* handle_file: "if success:" picks the move
MoveTarget(success) == IF success THEN "move_archive" ELSE "move_error"

\* process_pdf, first half: extract_header_from_pdf, the date, the Header CSV
ProcessHeader ==
    /\ pc = "header"
    /\ LET f == cur
           doc == fs[f].doc
           raises == ~fs[f].present \/ doc.fault = "corrupt" \/ DateRejected(doc)
       IN  IF raises
           THEN /\ run' = [run EXCEPT !.called = TRUE, !.result = "false",
                                      !.read = IF fs[f].present THEN fs[f].size ELSE -1,
                                      !.doc = doc]
                /\ outputDir' = outputDir
                /\ pc' = MoveTarget(FALSE)
           ELSE /\ run' = [run EXCEPT !.called = TRUE, !.read = fs[f].size,
                                      !.doc = doc, !.wrote = {"Header"}]
                /\ outputDir' = outputDir \cup {CsvName(f, doc, "Header")}
                /\ pc' = "items"
    /\ UNCHANGED << fs, queue, created, handled, cur, seen, archiveDir,
                    errorDir, crashed >>
    /\ IngestOnly

\* process_pdf, second half: extract_items_from_pdf opens the file again,
\* then the Items CSV is written
ProcessItems ==
    /\ pc = "items"
    /\ LET f == cur
           doc == fs[f].doc
           raises == ~fs[f].present \/ doc.fault # "none"
       IN  IF raises
           THEN /\ run' = [run EXCEPT !.result = "false"]
                /\ outputDir' = outputDir
                /\ pc' = MoveTarget(FALSE)
           ELSE /\ run' = [run EXCEPT !.result = "true",
                                      !.wrote = @ \cup {"Items"}]
                /\ outputDir' = outputDir \cup {CsvName(f, run.doc, "Items")}
                /\ pc' = MoveTarget(TRUE)
    /\ UNCHANGED << fs, queue, created, handled, cur, seen, archiveDir,
                    errorDir, crashed >>
    /\ IngestOnly

\* handle_file, success branch: move_file(file_path, ARCHIVE_DIR)
MoveArchive(oserr) ==
    /\ pc = "move_archive"
    /\ IF MoveRaises(cur, oserr)
       THEN /\ pc' = "move_fallback"
            /\ UNCHANGED << fs, archiveDir, run >>
       ELSE /\ fs' = [fs EXCEPT ![cur] = NoFile]
            /\ archiveDir' = archiveDir \cup {Stamped(cur)}
            /\ run' = [run EXCEPT !.moved = "archive"]
            /\ pc' = "idle"
    /\ UNCHANGED << queue, created, handled, cur, seen, errorDir, outputDir,
                    crashed >>
    /\ IngestOnly

\* handle_file: move_file(file_path, ERROR_DIR) after the archive move raised
MoveFallback(oserr) ==
    /\ pc = "move_fallback"
    /\ IF MoveRaises(cur, oserr)
       THEN UNCHANGED << fs, errorDir, run >>
       ELSE /\ fs' = [fs EXCEPT ![cur] = NoFile]
            /\ errorDir' = errorDir \cup {Stamped(cur)}
            /\ run' = [run EXCEPT !.moved = "error"]
    /\ pc' = "idle"
    /\ UNCHANGED << queue, created, handled, cur, seen, archiveDir, outputDir,
                    crashed >>
    /\ IngestOnly

\* handle_file, process_pdf returned False: move_file(file_path, ERROR_DIR)
MoveError(oserr) ==
    /\ pc = "move_error"
    /\ IF MoveRaises(cur, oserr)
       THEN UNCHANGED << fs, errorDir, run >>
       ELSE /\ fs' = [fs EXCEPT ![cur] = NoFile]
            /\ errorDir' = errorDir \cup {Stamped(cur)}
            /\ run' = [run EXCEPT !.moved = "error"]
    /\ pc' = "idle"
    /\ UNCHANGED << queue, created, handled, cur, seen, archiveDir, outputDir,
                    crashed >>
    /\ IngestOnly

\* ------------------------------------------------------------------------
\* wrapper.py
\* ------------------------------------------------------------------------
\* UPLOAD_INTERVAL default, seconds
UPLOAD_INTERVAL == 120

\* time.sleep(5) of the supervision loop
SleepSecs == 5

\* time.time() when the wrapper starts: far more than UPLOAD_INTERVAL after
\* the epoch, which last_upload_time = 0 stands for
BootTime == 10 * UPLOAD_INTERVAL

InitWrapper ==
    /\ wpc = "boot"
    /\ claude_process = 0
    /\ uploader_process = 0
    /\ procs = <<>>
    /\ alive = {}
    /\ current_time = BootTime
    /\ last_upload_time = 0
    /\ cycle = "none"

WrapperOnly ==
    UNCHANGED << ingestVars, uploadVars, itemVars, headerVars, mapVars, loopVars, batchVars >>

\* p.poll() is None
Running(p) == p \in alive

\* run_grist_uploader with its guard removed
UploaderBusyNever == FALSE

\* run_grist_uploader: uploader_process and uploader_process.poll() is None
UploaderBusy == uploader_process # 0 /\ Running(uploader_process)

\* restart_claude_extractor with its condition removed
ExtractorDiedAlways == TRUE

\* restart_claude_extractor: claude_process and claude_process.poll() is not None
ExtractorDied == claude_process # 0 /\ ~Running(claude_process)

\* __main__: signal handler registered, start_claude_extractor(),
\* last_upload_time = 0
WrapperBoot ==
    /\ wpc = "boot"
    /\ procs' = Append(procs, "claude_InvDataEx.py")
    /\ claude_process' = Len(procs) + 1
    /\ alive' = alive \cup {Len(procs) + 1}
    /\ last_upload_time' = 0
    /\ wpc' = "loop"
    /\ UNCHANGED << uploader_process, current_time, cycle >>
    /\ WrapperOnly

\* One iteration of the while True loop: sleep, restart_claude_extractor,
\* and, when an upload cycle is due, is_grist_available (available) and
\* run_grist_uploader.
WrapperTick(available) ==
    /\ wpc = "loop"
    /\ current_time + SleepSecs <= BootTime + MaxTicks * SleepSecs
    /\ LET now == current_time + SleepSecs
           restart == ExtractorDied
           afterRestart == IF restart THEN Append(procs, "claude_InvDataEx.py") ELSE procs
           due == now - last_upload_time >= UPLOAD_INTERVAL
           start == due /\ available /\ ~UploaderBusy
           afterUpload == IF start THEN Append(afterRestart, "grist_uploader.py")
                          ELSE afterRestart
       IN  /\ current_time' = now
           /\ procs' = afterUpload
           /\ claude_process' = IF restart THEN Len(afterRestart) ELSE claude_process
           /\ uploader_process' = IF start THEN Len(afterUpload) ELSE uploader_process
           /\ alive' = alive \cup (IF restart THEN {Len(afterRestart)} ELSE {})
                             \cup (IF start THEN {Len(afterUpload)} ELSE {})
           /\ last_upload_time' = IF due THEN now ELSE last_upload_time
           /\ cycle' = IF ~due THEN "not_due"
                       ELSE IF ~available THEN "unavailable"
                       ELSE IF start THEN "started" ELSE "skipped"
    /\ wpc' = wpc
    /\ WrapperOnly

\* A child process ends on its own: the uploader finishes, the extractor dies.
ProcessExit(p) ==
    /\ p \in alive
    /\ alive' = alive \ {p}
    /\ UNCHANGED << wpc, claude_process, uploader_process, procs,
                    current_time, last_upload_time, cycle >>
    /\ WrapperOnly

\* signal_handler: terminate both children, sys.exit(0)
WrapperInterrupt ==
    /\ wpc = "loop"
    /\ alive' = alive \ {claude_process, uploader_process}
    /\ wpc' = "stopped"
    /\ UNCHANGED << claude_process, uploader_process, procs, current_time,
                    last_upload_time, cycle >>
    /\ WrapperOnly

NextWrapper ==
    \/ WrapperBoot
    \/ \E available \in BOOLEAN : WrapperTick(available)
    \/ \E p \in alive : ProcessExit(p)
    \/ WrapperInterrupt

\* ------------------------------------------------------------------------
\* grist_uploader.py
\* ------------------------------------------------------------------------
\* invoice numbers the extractor writes into the Header CSVs
Invoices == {"A", "B"}

\* values the "Invoice Number" cells of the remote header table may hold
RemoteValues == {"A", "B", " A", ""}

\* file prefixes <name>_<date> of the CSV pairs
Prefixes == {"p1", "p2"}

\* str(v).strip()
Strip(v) == IF v = " A" THEN "A" ELSE v

NoPair == [header |-> FALSE, items |-> FALSE, inv |-> ""]

\* no upload_csv_to_grist call
NoUpload == [header |-> FALSE, items_tried |-> FALSE, items |-> FALSE]

UploadOnly ==
    UNCHANGED << ingestVars, wrapperVars, itemVars, headerVars, mapVars, loopVars, batchVars >>

\* fetch_and_populate_log, step 3: the invoice numbers of the records
RemoteInvoiceSet ==
    {Strip(v) : v \in {x \in RemoteValues : remoteHeader[x] > 0 /\ x # ""}}

\* load_or_create_invoice_log, the log exists: its non-empty stripped lines
LoadLog == {Strip(l) : l \in {x \in logLines : Strip(x) # ""}}

\* One remote table, with or without rows from before the log was kept; no
\* log, no CSV files (a fresh deployment).
InitUpload ==
    /\ remoteHeader = [v \in RemoteValues |-> 0]
    /\ hasInvoiceCol = TRUE
    /\ added = [i \in Invoices |-> 0]
    /\ logExists = FALSE
    /\ logLines = {}
    /\ csvDir = [p \in Prefixes |-> NoPair]
    /\ successDir = {}
    /\ rejectedDir = {}
    /\ lastUpload = NoUpload
    /\ upc = "idle"
    /\ processed = {}
    /\ todo = <<>>
    /\ runs = 0

InitUploadAny ==
    /\ remoteHeader \in [RemoteValues -> 0..1]
    /\ hasInvoiceCol \in BOOLEAN
    /\ added = [i \in Invoices |-> 0]
    /\ logExists = FALSE
    /\ logLines = {}
    /\ csvDir = [p \in Prefixes |-> NoPair]
    /\ successDir = {}
    /\ rejectedDir = {}
    /\ lastUpload = NoUpload
    /\ upc = "idle"
    /\ processed = {}
    /\ todo = <<>>
    /\ runs = 0

\* The extractor writes the CSV files of one document: process_pdf writes
\* the Header CSV and, unless it fails in between, the Items CSV.
WriteCsvPair(p, inv, withItems) ==
    /\ csvDir[p] = NoPair
    /\ \A f \in successDir \cup rejectedDir : f.prefix # p
    /\ csvDir' = [csvDir EXCEPT ![p] = [header |-> TRUE, items |-> withItems, inv |-> inv]]
    /\ UNCHANGED << remoteHeader, hasInvoiceCol, added, logExists, logLines,
                    successDir, rejectedDir, lastUpload, upc, processed, todo, runs >>
    /\ UploadOnly

\* sorted(list(file_prefixes))
SortedPrefixes(S) ==
    IF S = {} THEN <<>>
    ELSE IF S = {"p1"} THEN <<"p1">>
    ELSE IF S = {"p2"} THEN <<"p2">>
    ELSE <<"p1", "p2">>

\* main up to the loop over the prefixes: column info, the invoice log,
\* the directory listing.
\*   columnsOk  the two get_table_columns calls of main succeed
\*   logReadOk  open/read of an existing log succeeds
\*   fetch      what the requests of fetch_and_populate_log do
RunStart(columnsOk, logReadOk, fetch) ==
    /\ upc = "idle"
    /\ runs < MaxRuns
    /\ runs' = runs + 1
    /\ IF ~columnsOk
       THEN \* "Failed to get Grist column information ... Exiting."
            UNCHANGED << logExists, logLines, upc, processed, todo >>
       ELSE /\ IF logExists
               THEN /\ processed' = IF logReadOk THEN LoadLog ELSE {}
                    /\ UNCHANGED << logExists, logLines >>
               ELSE IF fetch = "request_error"
               THEN \* except RequestException: return set(), no file
                    /\ processed' = {}
                    /\ UNCHANGED << logExists, logLines >>
               ELSE IF ~hasInvoiceCol
               THEN \* column not found: an empty log file, an empty set
                    /\ processed' = {}
                    /\ logExists' = TRUE
                    /\ logLines' = {}
               ELSE /\ processed' = RemoteInvoiceSet
                    /\ logExists' = TRUE
                    /\ logLines' = RemoteInvoiceSet
            /\ todo' = SortedPrefixes({p \in Prefixes : csvDir[p].header \/ csvDir[p].items})
            /\ upc' = "pairs"
    /\ UNCHANGED << remoteHeader, hasInvoiceCol, added, csvDir, successDir,
                    rejectedDir, lastUpload >>
    /\ UploadOnly

File(p, part) == [prefix |-> p, part |-> part]

\* name_part + "_duplicate" + ext in the Rejected folder
DuplicateOf(f) == [prefix |-> f.prefix, part |-> f.part, suffix |-> "_duplicate"]

\* no pair counts as a duplicate
IsDuplicateNever(invoice_number, processed_invoice_numbers) == FALSE

\* invoice_number in processed_invoice_numbers
IsDuplicate(invoice_number, processed_invoice_numbers) ==
    invoice_number \in processed_invoice_numbers

\* the pair is logged when one of the moves succeeded
LoggedAfterOneMove(moved_header, moved_items) == moved_header \/ moved_items

\* if moved_header and moved_items: append_invoice_to_log, set.add
Logged(moved_header, moved_items) == moved_header /\ moved_items

\* One iteration of "for prefix in sorted(list(file_prefixes))".
\*   up   does uploader.add_records succeed for the header / the items file
\*   mv   does shutil.move succeed for the header / the items file
\*   logOk  does append_invoice_to_log manage to write
ProcessPair(up, mv, logOk) ==
    /\ upc = "pairs"
    /\ todo # <<>>
    /\ todo' = Tail(todo)
    /\ LET p == Head(todo)
           pair == csvDir[p]
           inv == pair.inv
       IN  IF ~(pair.header /\ pair.items)
           THEN \* only one file of the pair exists: pass
                /\ lastUpload' = NoUpload
                /\ UNCHANGED << remoteHeader, added, logExists, logLines, csvDir,
                                successDir, rejectedDir, processed >>
           ELSE IF inv = ""
           THEN \* get_invoice_number_from_csv returned None: skip the pair
                /\ lastUpload' = NoUpload
                /\ UNCHANGED << remoteHeader, added, logExists, logLines, csvDir,
                                successDir, rejectedDir, processed >>
           ELSE IF IsDuplicate(inv, processed)
           THEN \* duplicate: move_and_rename_duplicate for both files
                /\ csvDir' = [csvDir EXCEPT ![p].header = ~mv.header,
                                            ![p].items = ~mv.items]
                /\ rejectedDir' = rejectedDir
                       \cup (IF mv.header THEN {DuplicateOf(File(p, "Header"))} ELSE {})
                       \cup (IF mv.items THEN {DuplicateOf(File(p, "Items"))} ELSE {})
                /\ lastUpload' = NoUpload
                /\ UNCHANGED << remoteHeader, added, logExists, logLines,
                                successDir, processed >>
           ELSE LET header_success == up.header
                    items_success == header_success /\ up.items
                    moved_header == header_success /\ items_success /\ mv.header
                    moved_items == header_success /\ items_success /\ mv.items
                    logged == Logged(moved_header, moved_items)
                IN  /\ lastUpload' = [header |-> header_success,
                                      items_tried |-> header_success,
                                      items |-> items_success]
                    /\ remoteHeader' = IF header_success
                                       THEN [remoteHeader EXCEPT ![inv] = @ + 1]
                                       ELSE remoteHeader
                    /\ added' = IF header_success
                                THEN [added EXCEPT ![inv] = @ + 1]
                                ELSE added
                    /\ csvDir' = [csvDir EXCEPT ![p].header = ~moved_header,
                                                ![p].items = ~moved_items]
                    /\ successDir' = successDir
                           \cup (IF moved_header THEN {File(p, "Header")} ELSE {})
                           \cup (IF moved_items THEN {File(p, "Items")} ELSE {})
                    /\ processed' = IF logged THEN processed \cup {inv} ELSE processed
                    /\ logExists' = (logExists \/ (logged /\ logOk))
                    /\ logLines' = IF logged /\ logOk THEN logLines \cup {inv}
                                   ELSE logLines
                    /\ UNCHANGED rejectedDir
    /\ UNCHANGED << hasInvoiceCol, upc, runs >>
    /\ UploadOnly

\* main after the loop: the summary is printed and the process ends
RunEnd ==
    /\ upc = "pairs"
    /\ todo = <<>>
    /\ upc' = "idle"
    /\ processed' = {}
    /\ lastUpload' = NoUpload
    /\ UNCHANGED << remoteHeader, hasInvoiceCol, added, logExists, logLines,
                    csvDir, successDir, rejectedDir, todo, runs >>
    /\ UploadOnly

Outcomes == [header : BOOLEAN, items : BOOLEAN]

NextUpload ==
    \/ \E p \in Prefixes, inv \in Invoices \cup {""}, withItems \in BOOLEAN :
           WriteCsvPair(p, inv, withItems)
    \/ \E columnsOk \in BOOLEAN, logReadOk \in BOOLEAN,
          fetch \in {"ok", "request_error"} : RunStart(columnsOk, logReadOk, fetch)
    \/ \E up \in Outcomes, mv \in Outcomes, logOk \in BOOLEAN : ProcessPair(up, mv, logOk)
    \/ RunEnd

\* ------------------------------------------------------------------------
\* claude_InvDataEx.py: extract_items_from_pdf
\* ------------------------------------------------------------------------
\* A text line, stripped, is the sequence of its whitespace-separated
\* tokens; the empty sequence is a blank line.

\* tokens matching ^\d+$
IntTokens == {"1", "2", "3", "01", "998877"}

\* int(token)
IntOf(t) ==
    CASE t = "1" -> 1
      [] t = "01" -> 1
      [] t = "2" -> 2
      [] t = "3" -> 3
      [] t = "5" -> 5
      [] t = "998877" -> 998877
      [] t = "123456" -> 123456

\* len(token) of a token of digits
NumDigits(t) ==
    CASE t \in {"1", "2", "3", "5"} -> 1
      [] t = "01" -> 2
      [] t \in {"998877", "123456"} -> 6

AllIntTokens == IntTokens \cup {"5", "123456"}

\* tokens matching ^[\d,.]+\.\d{2}$
DecTokens == {"10.50", "52.50", "1500.00"}

\* the digits a token ends with, for (\d+)\s+NOS
TrailingDigits(t) ==
    CASE t \in AllIntTokens -> t
      [] t \in {"10.50", "52.50"} -> "50"
      [] t = "1500.00" -> "00"
      [] OTHER -> ""

\* \b\d{6,8}\b finds something inside the token
HasHsnLike(t) == t \in AllIntTokens /\ NumDigits(t) \in 6..8

\* (CGST|SGST|IGST), re.IGNORECASE, finds something inside the token
HasTaxWord(t) == t \in {"CGST", "SGST", "IGST", "cgst", "sgst", "igst"}

\* \bTotal\b, re.IGNORECASE, is the whole token
IsTotalWord(t) == t \in {"Total", "TOTAL", "total"}

\* the token holds a digit
HasDigit(t) == t \in AllIntTokens \cup DecTokens

\* the consecutive tokens w occur in the line
HasSeq(line, w) ==
    \E i \in 1..Len(line) :
        /\ i + Len(w) - 1 <= Len(line)
        /\ \A k \in 1..Len(w) : line[i + k - 1] = w[k]

HasToken(line, t) == \E i \in 1..Len(line) : line[i] = t

\* the table header test of the first loop over the lines of a page
IsTableHeader(line) ==
    \/ /\ HasSeq(line, <<"Sl", "Description">>)
       /\ (HasToken(line, "Quantity") \/ HasToken(line, "HSN/SAC"))
    \/ HasSeq(line, <<"No.", "Goods", "and", "Services">>)

\* "Amount Chargeable" in line or "Total" in line or ...
IsEndMarker(line) ==
    \/ HasSeq(line, <<"Amount", "Chargeable">>)
    \/ HasToken(line, "Total")
    \/ HasSeq(line, <<"continued", "to", "page">>)
    \/ HasSeq(line, <<"SUBJECT", "TO">>)

\* not line or line.startswith("Sl") or line.startswith("No.")
IsSkipped(line) == line = <<>> \/ line[1] \in {"Sl", "No."}

\* re.match(r'^(\d+)\s+', line)
StartsWithNumber(line) == Len(line) >= 2 /\ line[1] \in AllIntTokens

\* re.search(r'\b\d{6,8}\b', next_line)
HasHsnAnywhere(line) == \E i \in 1..Len(line) : HasHsnLike(line[i])

\* positions where (\d+)\s+NOS matches
QtyPositions(line) ==
    {i \in 1..(Len(line) - 1) : TrailingDigits(line[i]) # "" /\ line[i + 1] = "NOS"}

Min(S) == CHOOSE x \in S : \A y \in S : x <= y

\* re.findall(r'([\d,.]+\.\d{2})', line)
Decimals(line) == SelectSeq(line, LAMBDA t : t \in DecTokens)

IsTaxLine(line) == \E i \in 1..Len(line) : HasTaxWord(line[i])

RECURSIVE DropLeadingNonDigits(_)
DropLeadingNonDigits(line) ==
    IF line = <<>> \/ HasDigit(line[1]) THEN line
    ELSE DropLeadingNonDigits(Tail(line))

RECURSIVE DropTrailingNonDigits(_)
DropTrailingNonDigits(line) ==
    IF line = <<>> \/ HasDigit(line[Len(line)]) THEN line
    ELSE DropTrailingNonDigits(SubSeq(line, 1, Len(line) - 1))

\* is_likely_total_line: "Total" removed, non-digits stripped from both
\* ends, and what is left is one decimal number
IsLikelyTotalLine(line) ==
    LET rest == DropTrailingNonDigits(DropLeadingNonDigits(
                    SelectSeq(line, LAMBDA t : ~IsTotalWord(t))))
    IN  Len(rest) = 1 /\ rest[1] \in DecTokens

\* the look-ahead's test for the next item line
IsLikelyNewItem(line) ==
    /\ StartsWithNumber(line)
    /\ \/ HasHsnAnywhere(line)
       \/ QtyPositions(line) # {}
       \/ Len(Decimals(line)) >= 2

\* no line stops the look-ahead as a tax line or a total line
StopsDescriptionNever(line) == FALSE

\* is_tax_line or is_likely_total_line: break before the line is appended
StopsDescription(line) == IsTaxLine(line) \/ IsLikelyTotalLine(line)

\* The inner while loop: description lines after the item line.  Python
\* indexes lines from 0; here lines[1] is the first line and item_end_idx
\* is the position of the end marker (Len + 1 when there is none).  taken
\* lists the positions of the lines appended to description_lines.
RECURSIVE LookAhead(_, _, _, _, _)
LookAhead(lines, next_idx, item_end_idx, description_lines, taken) ==
    LET stop == [next_idx |-> next_idx, description_lines |-> description_lines,
                 taken |-> taken]
    IN  IF next_idx >= item_end_idx THEN stop
        ELSE LET next_line == lines[next_idx]
             IN  IF IsEndMarker(next_line) THEN stop
                 ELSE IF next_line = <<>>
                 THEN LookAhead(lines, next_idx + 1, item_end_idx, description_lines, taken)
                 ELSE IF IsLikelyNewItem(next_line) THEN stop
                 ELSE IF StopsDescription(next_line) THEN stop
                 ELSE LookAhead(lines, next_idx + 1, item_end_idx,
                                Append(description_lines, next_line),
                                Append(taken, next_idx))

\* ' '.join(description_lines) followed by re.sub(r'\s+', ' ', ...).strip():
\* the tokens of the lines, in order
RECURSIVE Flatten(_)
Flatten(description_lines) ==
    IF description_lines = <<>> THEN <<>>
    ELSE Head(description_lines) \o Flatten(Tail(description_lines))

\* main_line_hsn_match: (\d{6,8})$
Hsn(line) == IF HasHsnLike(line[Len(line)]) THEN line[Len(line)] ELSE ""

\* main_line_qty_match.group(1): the digits before the leftmost \s+NOS
QtyValue(line) ==
    IF QtyPositions(line) # {} THEN TrailingDigits(line[Min(QtyPositions(line))]) ELSE ""

\* rate taken from the first decimal whatever the quantity
RateFromFirstDecimal(qty_value, decimals) ==
    IF decimals # <<>> THEN decimals[1] ELSE ""

\* rate: the first decimal of a line with a quantity and two decimals
Rate(qty_value, decimals) ==
    IF qty_value # "" /\ Len(decimals) >= 2 THEN decimals[1] ELSE ""

\* amount: the last decimal of a line without quantity, else the second
\* decimal, else the only one
Amount(qty_value, decimals) ==
    IF qty_value = ""
    THEN (IF Len(decimals) >= 1 THEN decimals[Len(decimals)] ELSE "")
    ELSE (IF Len(decimals) >= 2 THEN decimals[2]
          ELSE IF Len(decimals) = 1 THEN decimals[1] ELSE "")

\* tokens all of whose characters are in [-\d.%]
IsTaxFigure(t) == t \in AllIntTokens \cup DecTokens \cup {"%", "-"}

RECURSIVE DropTaxFigures(_)
DropTaxFigures(tokens) ==
    IF tokens = <<>> \/ ~IsTaxFigure(tokens[1]) THEN tokens
    ELSE DropTaxFigures(Tail(tokens))

\* re.sub(r'Output\s+IGST\s*[-\d.% ]+', '', ...), and for CGST and SGST: at
\* least one character has to follow the tax word
RECURSIVE RemoveTaxInfo(_)
RemoveTaxInfo(tokens) ==
    IF tokens = <<>> THEN <<>>
    ELSE IF /\ Len(tokens) >= 3
            /\ tokens[1] \in {"Output", "OUTPUT", "output"}
            /\ HasTaxWord(tokens[2])
         THEN RemoveTaxInfo(DropTaxFigures(SubSeq(tokens, 3, Len(tokens))))
         ELSE <<tokens[1]>> \o RemoveTaxInfo(Tail(tokens))

\* The cleaning applied to full_description and to first_line_item: the HSN
\* code and every other number of 6 to 8 digits, NOS when the line has a
\* quantity, the decimals of the main line, the quantity value, the tax
\* information.  The tokens modelled are removed whole: no decimal has an
\* integer part of 6 to 8 digits, and the quantity value is never a part of
\* a decimal that is left after the main line's decimals are gone.
Clean(tokens, line) ==
    LET decimals == Decimals(line)
        removed(t) ==
            \/ HasHsnLike(t)
            \/ QtyValue(line) # "" /\ t \in {"NOS", "nos", "Nos"}
            \/ \E k \in 1..Len(decimals) : t = decimals[k]
            \/ QtyValue(line) # "" /\ t = QtyValue(line)
    IN  RemoveTaxInfo(SelectSeq(tokens, LAMBDA t : ~removed(t)))

\* The values taken from the main line and the dictionary appended to items
\* (file_name and invoice_number, the same for every item of a document, are
\* left out); line and description_lines are kept beside the fields.
BuildItem(line, description_lines) ==
    LET qty_value == QtyValue(line)
        decimals == Decimals(line)
    IN  [item_no |-> line[1],
         item |-> Clean(description_lines[1], line),
         description |-> Clean(Flatten(description_lines), line),
         qty_value |-> qty_value,
         qty_unit |-> IF qty_value # "" THEN "NOS" ELSE "",
         rate |-> Rate(qty_value, decimals),
         amount |-> Amount(qty_value, decimals),
         hsn_sac |-> Hsn(line),
         line |-> line,
         description_lines |-> description_lines]

\* the duplicate test with the set of processed numbers ignored
AlreadyProcessedNever(item_no, done) == FALSE

\* if item_no in processed_item_numbers
AlreadyProcessed(item_no, done) == item_no \in done

\* what the loops did with the line at position i: rs lists, per position,
\* the uses made of the line
Mark(rs, i, kind, item_no) ==
    [rs EXCEPT ![i] = Append(@, [kind |-> kind, item_no |-> item_no])]

RECURSIVE MarkAll(_, _, _, _)
MarkAll(rs, taken, kind, item_no) ==
    IF taken = <<>> THEN rs
    ELSE MarkAll(Mark(rs, Head(taken), kind, item_no), Tail(taken), kind, item_no)

\* the cursor moved to the line after the item line
ResumeAtNextLine(idx, next_idx) == idx + 1

\* idx = next_idx
ResumeAt(idx, next_idx) == next_idx

\* The outer while loop over the item lines of one page; st carries items,
\* processed_item_numbers and the bookkeeping of the model.
RECURSIVE ItemLoop(_, _, _, _)
ItemLoop(lines, idx, item_end_idx, st) ==
    IF idx >= item_end_idx THEN st
    ELSE LET line == lines[idx]
         IN  IF IsSkipped(line) \/ ~StartsWithNumber(line)
             THEN ItemLoop(lines, idx + 1, item_end_idx,
                           [st EXCEPT !.roles = Mark(@, idx, "skip", "")])
             ELSE IF AlreadyProcessed(line[1], st.processed)
             THEN ItemLoop(lines, idx + 1, item_end_idx,
                           [st EXCEPT !.skipped = @ \cup {line[1]},
                                      !.roles = Mark(@, idx, "dup", line[1])])
             ELSE LET la == LookAhead(lines, idx + 1, item_end_idx, <<Tail(line)>>, <<>>)
                  IN  ItemLoop(lines, ResumeAt(idx, la.next_idx), item_end_idx,
                               [items |-> Append(st.items,
                                                 BuildItem(line, la.description_lines)),
                                processed |-> st.processed \cup {line[1]},
                                finalized |-> Append(st.finalized, line[1]),
                                skipped |-> st.skipped,
                                roles |-> MarkAll(Mark(st.roles, idx, "item", line[1]),
                                                  la.taken, "desc", line[1])])

\* item_start_idx: the line after the first table header, 0 when the page
\* has none
\* the table taken to go on from the top of a page without a header
ItemStartCarried(lines) ==
    LET hs == {i \in 1..Len(lines) : IsTableHeader(lines[i])}
    IN  IF hs = {} THEN 1 ELSE Min(hs) + 1

ItemStart(lines) ==
    LET hs == {i \in 1..Len(lines) : IsTableHeader(lines[i])}
    IN  IF hs = {} THEN 0 ELSE Min(hs) + 1

\* item_end_idx with the end markers ignored
ItemEndOfPage(lines, item_start_idx) == Len(lines) + 1

\* item_end_idx: the first end marker from item_start_idx on, else the end
\* of the page
ItemEnd(lines, item_start_idx) ==
    LET es == {i \in item_start_idx..Len(lines) : IsEndMarker(lines[i])}
    IN  IF es = {} THEN Len(lines) + 1 ELSE Min(es)

\* one iteration of "for page_num, page in enumerate(pdf.pages)"
ExtractPage(lines, st) ==
    IF ItemStart(lines) = 0 THEN st
    ELSE ItemLoop(lines, ItemStart(lines), ItemEnd(lines, ItemStart(lines)), st)

\* list.sort(key=lambda x: int(x['item_no'])): stable, ascending
RECURSIVE InsertSorted(_, _)
InsertSorted(sorted, item) ==
    IF sorted = <<>> THEN <<item>>
    ELSE IF IntOf(sorted[Len(sorted)].item_no) <= IntOf(item.item_no)
    THEN Append(sorted, item)
    ELSE Append(InsertSorted(SubSeq(sorted, 1, Len(sorted) - 1), item),
                sorted[Len(sorted)])

RECURSIVE SortItems(_)
SortItems(list) ==
    IF list = <<>> THEN <<>>
    ELSE InsertSorted(SortItems(SubSeq(list, 1, Len(list) - 1)), list[Len(list)])

\* the lines a page of the modelled invoices may hold
PageLines ==
    { <<"Sl", "Description", "HSN/SAC", "Quantity">>,
      <<"1", "Widget", "998877">>,
      <<"01", "Widget", "998877">>,
      <<"2", "Gear", "5", "NOS", "10.50", "NOS", "52.50">>,
      <<"3", "months", "warranty">>,
      <<"Total", "52.50">> }

RECURSIVE SeqsUpTo(_, _)
SeqsUpTo(S, n) ==
    IF n = 0 THEN {<<>>}
    ELSE LET shorter == SeqsUpTo(S, n - 1)
         IN  shorter \cup {Append(q, x) : q \in shorter, x \in S}

\* page.extract_text().splitlines(), for a page of at most n lines
PageTexts(n) == SeqsUpTo(PageLines, n)

InitItems ==
    /\ ipc = "pages"
    /\ pagesRead = 0
    /\ linesRead = 0
    /\ items = <<>>
    /\ processed_item_numbers = {}
    /\ finalized = <<>>
    /\ dupSkipped = {}
    /\ warnings = {}
    /\ page = <<>>
    /\ roles = <<>>
    /\ docs = 1
    /\ docText = <<>>
    /\ earlier = {}

ItemsOnly ==
    UNCHANGED << ingestVars, wrapperVars, uploadVars, headerVars, mapVars, loopVars, batchVars >>

\* one iteration of the loop over pdf.pages, on a page whose text is lines
TakePage(lines) ==
    /\ LET st == ExtractPage(lines, [items |-> items,
                                     processed |-> processed_item_numbers,
                                     finalized |-> finalized,
                                     skipped |-> dupSkipped,
                                     roles |-> [i \in 1..Len(lines) |-> <<>>]])
       IN  /\ items' = st.items
           /\ processed_item_numbers' = st.processed
           /\ finalized' = st.finalized
           /\ dupSkipped' = st.skipped
           /\ roles' = st.roles
    /\ page' = lines
    /\ docText' = Append(docText, lines)
    /\ UNCHANGED << docs, earlier >>
    /\ linesRead' = linesRead + Len(lines)
    /\ pagesRead' = pagesRead + 1
    /\ ipc' = ipc
    /\ warnings' = warnings
    /\ ItemsOnly

\* the loop over pdf.pages takes the next page, whose text is lines
ProcessPage ==
    /\ ipc = "pages"
    /\ pagesRead < MaxPages
    /\ \E lines \in PageTexts(MaxLines - linesRead) : TakePage(lines)

\* the lines of the item table of the modelled invoices
TableHeader == <<"Sl", "Description", "HSN/SAC", "Quantity">>

TableLines ==
    { <<"1", "Widget", "Assembly", "123456", "5", "NOS", "10.50", "NOS", "52.50">>,
      <<"2", "Local", "Repairs", "998877", "1500.00">>,
      <<"3", "Bolt", "5", "NOS", "52.50">>,
      <<"spare", "parts">>,
      <<"pack", "of", "5">>,
      <<>>,
      <<"Output", "CGST", "52.50">>,
      <<"52.50">>,
      <<"Total", "52.50">> }

\* the next page starts with the table header
ProcessTablePage ==
    /\ ipc = "pages"
    /\ pagesRead < MaxPages
    /\ linesRead < MaxLines
    /\ \E body \in SeqsUpTo(TableLines, MaxLines - linesRead - 1) :
           TakePage(<<TableHeader>> \o body)

\* after the last page: items.sort(...), return items; the item numbers of
\* neighbours are not compared and the only logging calls are logging.debug
ReturnItems ==
    /\ ipc = "pages"
    /\ pagesRead >= 1
    /\ items' = SortItems(items)
    /\ ipc' = "done"
    /\ UNCHANGED << pagesRead, linesRead, processed_item_numbers, finalized, dupSkipped,
                    warnings, page, roles, docs, docText, earlier >>
    /\ ItemsOnly

\* the lines of a table with tax lines and a bare total
TaxTableLines ==
    { <<"3", "Bolt", "5", "NOS", "52.50">>,
      <<"spare", "parts">>,
      <<"Output", "CGST", "52.50">>,
      <<"2", "CGST", "52.50">>,
      <<"52.50">> }

\* the next page starts with the table header and goes on with such lines
ProcessTaxPage ==
    /\ ipc = "pages"
    /\ pagesRead < MaxPages
    /\ linesRead < MaxLines
    /\ \E body \in SeqsUpTo(TaxTableLines, MaxLines - linesRead - 1) :
           TakePage(<<TableHeader>> \o body)

NextTax ==
    \/ ProcessTaxPage
    \/ ReturnItems

NextItems ==
    \/ ProcessPage
    \/ ReturnItems

NextTable ==
    \/ ProcessTablePage
    \/ ReturnItems

\* ------------------------------------------------------------------------
\* claude_InvDataEx.py: extract_header_from_pdf (the party blocks)
\* InvDataEx.py: process_pdf (header parsing)
\* ------------------------------------------------------------------------
\* A header line is its text.  The lines modelled: the three anchors, a
\* GSTIN line, an invoice line with a valid and one with an invalid date, and
\* three lines of plain text, which hold no phone number, no e-mail address
\* and none of the field names the final cleanup removes.
AnchorConsignee == "Consignee (Ship to)"

AnchorBuyer == "Buyer (Bill to)"

PlaceOfSupplyLine == "Place of Supply : Goa"

GstinLine == "GSTIN/UIN : 27AAA"

InvoiceLine == "Invoice No. SC00001-24-25 Dated 5-Apr-25"

BadDateLine == "Invoice No. SC00002-24-25 Dated 31-Apr-25"

AckDateLine == "Ack Date : 4-Apr-25"

DatedLine == "Dated 6-Apr-25"

BillOfLadingLine == "Bill of Lading/LR-RR No."

TextLines == {"A", "B", "C"}

HeaderLines ==
    {AnchorConsignee, AnchorBuyer, PlaceOfSupplyLine, GstinLine, InvoiceLine, BadDateLine,
     AckDateLine, DatedLine, BillOfLadingLine}
        \cup TextLines

\* re.findall(r"\b\d{1,2}-[A-Za-z]{3}-\d{2}\b", line)[-1] on a line that
\* holds an invoice number
DateOnLine(line) ==
    CASE line = InvoiceLine -> <<5, "Apr", 25>>
      [] line = BadDateLine -> <<31, "Apr", 25>>
      [] OTHER -> <<>>

\* re.search(r'SC\d{5}-\d{2}-\d{2}', line)
HasInvoiceNumber(line) == line \in {InvoiceLine, BadDateLine}

\* re.search(r'(\d{1,2}-[A-Za-z]{3}-\d{2})', line).group(1)
FirstDate(line) ==
    CASE line = InvoiceLine -> <<5, "Apr", 25>>
      [] line = BadDateLine -> <<31, "Apr", 25>>
      [] line = AckDateLine -> <<4, "Apr", 25>>
      [] line = DatedLine -> <<6, "Apr", 25>>
      [] OTHER -> <<>>

\* re.search(r'Dated\s+(\d{1,2}-[A-Za-z]{3}-\d{2})', line) finds something
HasDatedDate(line) == line \in {InvoiceLine, BadDateLine, DatedLine}

\* 'Ack Date' in line
HasAckDate(line) == line = AckDateLine

\* the first position of S, 0 when there is none
FirstOf(S) == IF S = {} THEN 0 ELSE CHOOSE i \in S : \A q \in S : i <= q

\* Approach 3: the first date in the five lines from a 'Bill of Lading'
\* line on
DateNearBillOfLading(lines) ==
    LET found == {b \in 1..Len(lines) :
                     /\ lines[b] = BillOfLadingLine
                     /\ \E i \in b..(b + 4) : i <= Len(lines) /\ FirstDate(lines[i]) # <<>>}
        b == FirstOf(found)
    IN  IF b = 0 THEN 0
        ELSE FirstOf({i \in b..(b + 4) : i <= Len(lines) /\ FirstDate(lines[i]) # <<>>})

\* the position of the line invoice_date is taken from, 0 when no step
\* finds a date: near the invoice number, 'Dated', the first date of a line
\* without 'Ack Date', near 'Bill of Lading'
DateLine(lines) ==
    LET invoice_line_idx == FirstOf({i \in 1..Len(lines) : HasInvoiceNumber(lines[i])})
        near == IF invoice_line_idx = 0 THEN 0
                ELSE FirstOf({i \in (invoice_line_idx - 3)..(invoice_line_idx + 3) :
                                 /\ i >= 1
                                 /\ i <= Len(lines)
                                 /\ FirstDate(lines[i]) # <<>>
                                 /\ ~HasAckDate(lines[i])})
        dated == FirstOf({i \in 1..Len(lines) : HasDatedDate(lines[i])})
        general == FirstOf({i \in 1..Len(lines) :
                               FirstDate(lines[i]) # <<>> /\ ~HasAckDate(lines[i])})
    IN  IF near # 0 THEN near
        ELSE IF dated # 0 THEN dated
        ELSE IF general # 0 THEN general
        ELSE DateNearBillOfLading(lines)

NoHeader ==
    [raised |-> "", invoice_date |-> <<>>, date_line |-> 0,
     consignee_name |-> "", consignee_address |-> <<>>,
     buyer_name |-> "", buyer_address |-> <<>>]

\* The loop that locates the section boundaries; positions count from 1 and
\* 0 stands for None.  consignee_start and buyer_start are the positions of
\* the lines after the anchors.
RECURSIVE SectionBounds(_, _, _)
SectionBounds(lines, idx, b) ==
    IF idx > Len(lines) THEN b
    ELSE IF lines[idx] = AnchorConsignee
    THEN SectionBounds(lines, idx + 1, [b EXCEPT !.consignee_start = idx + 1])
    ELSE IF b.consignee_start # 0 /\ lines[idx] = AnchorBuyer
    THEN SectionBounds(lines, idx + 1,
                       [b EXCEPT !.consignee_end = idx, !.buyer_start = idx + 1])
    ELSE IF b.buyer_start # 0 /\ lines[idx] = PlaceOfSupplyLine
    THEN [b EXCEPT !.buyer_end = idx]
    ELSE SectionBounds(lines, idx + 1, b)

\* address_lines: the lines from position from up to, not including, to,
\* stopping at the GSTIN line
RECURSIVE AddressLines(_, _, _)
AddressLines(lines, from, to) ==
    IF from >= to \/ lines[from] = GstinLine THEN <<>>
    ELSE <<lines[from]>> \o AddressLines(lines, from + 1, to)

\* extract_header_from_pdf; an address is the sequence of the lines joined
\* by ", "
ExtractHeaderFromPdf(lines) ==
    LET b == SectionBounds(lines, 1, [consignee_start |-> 0, consignee_end |-> 0,
                                      buyer_start |-> 0, buyer_end |-> 0])
        consignee == b.consignee_start # 0 /\ b.consignee_end # 0
        buyer == b.buyer_start # 0 /\ b.buyer_end # 0
    IN  IF consignee /\ b.consignee_start > Len(lines)
        THEN [NoHeader EXCEPT !.raised = "IndexError"]
        ELSE IF buyer /\ b.buyer_start > Len(lines)
        THEN [NoHeader EXCEPT !.raised = "IndexError"]
        ELSE [raised |-> "",
              invoice_date |-> IF DateLine(lines) = 0 THEN <<>>
                               ELSE FirstDate(lines[DateLine(lines)]),
              date_line |-> DateLine(lines),
              consignee_name |-> IF consignee THEN lines[b.consignee_start] ELSE "",
              consignee_address |->
                  IF consignee
                  THEN AddressLines(lines, b.consignee_start + 1, b.consignee_end)
                  ELSE <<>>,
              buyer_name |-> IF buyer THEN lines[b.buyer_start] ELSE "",
              buyer_address |->
                  IF buyer
                  THEN AddressLines(lines, b.buyer_start + 1, b.buyer_end)
                  ELSE <<>>]

\* dict.fromkeys(consignee_address): first occurrences, in order
RECURSIVE Dedupe(_)
Dedupe(list) ==
    IF list = <<>> THEN <<>>
    ELSE LET front == Dedupe(SubSeq(list, 1, Len(list) - 1))
             last == list[Len(list)]
         IN  IF \E k \in 1..Len(front) : front[k] = last THEN front
             ELSE Append(front, last)

\* the stop keywords among the lines modelled
IsStopLine(line) == line \in {AnchorBuyer, GstinLine}

\* InvDataEx.py: the address lines collected after the name line, at most
\* ten lines looked at
RECURSIVE LegacyAddress(_, _, _)
LegacyAddress(lines, from, to) ==
    IF from > to \/ from > Len(lines) \/ IsStopLine(lines[from]) THEN <<>>
    ELSE <<lines[from]>> \o LegacyAddress(lines, from + 1, to)

\* InvDataEx.py, process_pdf up to the date: lines[idx + 1] for every anchor
\* line, consignee_start and cleaned_address bound only when an anchor was
\* met, then strptime
LegacyHeader(lines) ==
    LET anchors == {i \in 1..Len(lines) : lines[i] = AnchorConsignee}
        first == CHOOSE i \in anchors : \A q \in anchors : i <= q
        dated == FirstOf({i \in 1..Len(lines) : HasInvoiceNumber(lines[i])})
        date == IF dated = 0 THEN <<>> ELSE DateOnLine(lines[dated])
    IN  IF Len(lines) \in anchors
        THEN [NoHeader EXCEPT !.raised = "IndexError"]
        ELSE IF anchors = {}
        THEN [NoHeader EXCEPT !.raised = "UnboundLocalError"]
        ELSE IF ~Strptime(date)
        THEN [NoHeader EXCEPT !.raised = "ValueError", !.invoice_date = date]
        ELSE [raised |-> "",
              invoice_date |-> date,
              date_line |-> dated,
              consignee_name |-> IF lines[first + 1] = GstinLine THEN ""
                                 ELSE lines[first + 1],
              consignee_address |-> Dedupe(LegacyAddress(lines, first + 2, first + 11)),
              buyer_name |-> "",
              buyer_address |-> <<>>]

\* a first page with both party blocks around address lines
PartyPage(address) ==
    <<AnchorConsignee, "A">> \o address \o <<AnchorBuyer, "B">> \o address
        \o <<PlaceOfSupplyLine>>

\* the first pages parsed
FirstPages ==
    SeqsUpTo(HeaderLines, MaxHeaderLines)
        \cup {PartyPage(address) : address \in SeqsUpTo(TextLines, MaxAddressLines)}

InitHeader ==
    /\ hpc = "idle"
    /\ hlines = <<>>
    /\ hdr = NoHeader

HeaderOnly ==
    UNCHANGED << ingestVars, wrapperVars, uploadVars, itemVars, mapVars, loopVars, batchVars >>

\* pdf.pages[0].extract_text().splitlines()
ReadFirstPage ==
    /\ hpc = "idle"
    /\ \E lines \in FirstPages : hlines' = lines
    /\ hpc' = "read"
    /\ hdr' = NoHeader
    /\ HeaderOnly

\* claude_InvDataEx.py parses the header
ExtractHeader ==
    /\ hpc = "read"
    /\ hdr' = ExtractHeaderFromPdf(hlines)
    /\ hpc' = "done"
    /\ hlines' = hlines
    /\ HeaderOnly

\* InvDataEx.py parses the header
LegacyParseHeader ==
    /\ hpc = "read"
    /\ hdr' = LegacyHeader(hlines)
    /\ hpc' = "legacy_done"
    /\ hlines' = hlines
    /\ HeaderOnly

\* the next document
CloseHeader ==
    /\ hpc \in {"done", "legacy_done"}
    /\ hpc' = "idle"
    /\ hlines' = <<>>
    /\ hdr' = NoHeader
    /\ HeaderOnly

NextHeader ==
    \/ ReadFirstPage
    \/ ExtractHeader
    \/ LegacyParseHeader
    \/ CloseHeader

\* the state a call of extract_items_from_pdf starts from
KeepProcessed(previous) == previous

NewProcessed(previous) == {}

\* process_pdf is called for the next file: extract_items_from_pdf starts
\* with its own items and processed_item_numbers, extract_header_from_pdf
\* with its own header_data.  The line budget spans the documents of a run.
OpenDocument ==
    /\ ipc = "done"
    /\ hpc = "done"
    /\ docs < MaxDocs
    /\ docs' = docs + 1
    /\ earlier' = earlier \cup processed_item_numbers
    /\ ipc' = "pages"
    /\ pagesRead' = 0
    /\ items' = <<>>
    /\ processed_item_numbers' = NewProcessed(processed_item_numbers)
    /\ finalized' = <<>>
    /\ dupSkipped' = {}
    /\ page' = <<>>
    /\ roles' = <<>>
    /\ docText' = <<>>
    /\ hpc' = "idle"
    /\ hlines' = <<>>
    /\ hdr' = NoHeader
    /\ UNCHANGED << linesRead, warnings >>
    /\ UNCHANGED << ingestVars, wrapperVars, uploadVars, mapVars, loopVars, batchVars >>

\* the first pages of the documents parsed in a row
DocFirstPages == {PartyPage(address) : address \in SeqsUpTo(TextLines, 1)}

\* process_pdf calls extract_header_from_pdf on the document
ParseDocHeader ==
    /\ hpc = "idle"
    /\ \E lines \in DocFirstPages :
           /\ hlines' = lines
           /\ hdr' = ExtractHeaderFromPdf(lines)
    /\ hpc' = "done"
    /\ HeaderOnly

\* extract_items_from_pdf on a document of the given pages, from the state
\* of its first lines
RECURSIVE ParsePages(_, _)
ParsePages(pages, st) ==
    IF pages = <<>> THEN st
    ELSE ParsePages(Tail(pages),
                    ExtractPage(Head(pages),
                                [st EXCEPT !.roles = [i \in 1..Len(Head(pages)) |-> <<>>]]))

ParseAlone(pages) ==
    SortItems(ParsePages(pages, [items |-> <<>>, processed |-> {}, finalized |-> <<>>,
                                 skipped |-> {}, roles |-> <<>>]).items)

NextDocs ==
    \/ ParseDocHeader
    \/ ProcessTablePage
    \/ ReturnItems
    \/ OpenDocument

\* ------------------------------------------------------------------------
\* grist_uploader.py: create_column_mapping_from_grist
\* ------------------------------------------------------------------------
ColumnLabels == {"Invoice Number", "Qty"}

ColumnIds == {"invoice_number", "Invoice_Number", "Qty"}

HeaderNames == {"Invoice Number", "invoice_number", " Qty", "qty", "Other"}

\* csv_header.strip()
StripHeader(name) == IF name = " Qty" THEN "Qty" ELSE name

\* name.lower().replace(" ", "_")
Normalized(name) ==
    CASE name \in {"Invoice Number", "invoice_number", "Invoice_Number"} -> "invoice_number"
      [] name \in {"Qty", "qty"} -> "qty"
      [] name = "Other" -> "other"

\* the column lists of a remote table: the ids differ
ColumnLists ==
    {cols \in SeqsUpTo([label : ColumnLabels, id : ColumnIds], MaxColumns) :
        \A i, j \in 1..Len(cols) : cols[i].id = cols[j].id => i = j}

\* grist_columns[label]: the dict keeps the id of the last column of a label
GristColumns(cols, label) ==
    cols[CHOOSE i \in 1..Len(cols) :
             /\ cols[i].label = label
             /\ \A j \in 1..Len(cols) : cols[j].label = label => j <= i].id

\* the first label of grist_columns, in insertion order, that matches the
\* normalized header; 0 when there is none
NormalizedLabelAt(cols, name) ==
    LET at == {i \in 1..Len(cols) : Normalized(cols[i].label) = Normalized(name)}
    IN  IF at = {} THEN 0 ELSE CHOOSE i \in at : \A q \in at : i <= q

\* the ids whose normalized form matches; grist_col_ids is a set, and its
\* iteration order decides which of them the loop meets first
NormalizedIds(cols, name) ==
    {cols[i].id : i \in {k \in 1..Len(cols) : Normalized(cols[k].id) = Normalized(name)}}

\* the values mapping[csv_header] can get, {""} when the header is left out:
\* exact label, exact id, normalized label, normalized id
MapHeader(cols, csv_header) ==
    LET clean_csv_header == StripHeader(csv_header)
    IN  IF \E i \in 1..Len(cols) : cols[i].label = clean_csv_header
        THEN {GristColumns(cols, clean_csv_header)}
        ELSE IF \E i \in 1..Len(cols) : cols[i].id = clean_csv_header
        THEN {clean_csv_header}
        ELSE IF NormalizedLabelAt(cols, clean_csv_header) # 0
        THEN {GristColumns(cols, cols[NormalizedLabelAt(cols, clean_csv_header)].label)}
        ELSE IF NormalizedIds(cols, clean_csv_header) # {}
        THEN NormalizedIds(cols, clean_csv_header)
        ELSE {""}

InitMap ==
    /\ mpc = "idle"
    /\ columns_data = <<>>
    /\ csv_headers = <<>>
    /\ mapping = <<>>

MapOnly ==
    UNCHANGED << ingestVars, wrapperVars, uploadVars, itemVars, headerVars, loopVars, batchVars >>

\* create_column_mapping_from_grist(columns_data, csv_headers)
CreateColumnMapping ==
    /\ mpc = "idle"
    /\ \E cols \in ColumnLists, headers \in SeqsUpTo(HeaderNames, MaxCsvHeaders) :
           /\ columns_data' = cols
           /\ csv_headers' = headers
           /\ mapping' \in {f \in [{headers[i] : i \in 1..Len(headers)} -> ColumnIds \cup {""}] :
                               \A h \in DOMAIN f : f[h] \in MapHeader(cols, h)}
    /\ mpc' = "mapped"
    /\ MapOnly

\* the mapping was used; the next file
MappingUsed ==
    /\ mpc = "mapped"
    /\ mpc' = "idle"
    /\ columns_data' = <<>>
    /\ csv_headers' = <<>>
    /\ mapping' = <<>>
    /\ MapOnly

NextMap ==
    \/ CreateColumnMapping
    \/ MappingUsed

\* ------------------------------------------------------------------------
\* claude_InvDataEx.py: extract_items_from_pdf, one loop iteration per step
\* ------------------------------------------------------------------------
NoDescription == [description_lines |-> <<>>, taken |-> <<>>]

NoItems ==
    [items |-> <<>>, processed |-> {}, finalized |-> <<>>, skipped |-> {}, roles |-> <<>>]

InitLoop ==
    /\ lpc = "idle"
    /\ loop_lines = <<>>
    /\ loop_idx = 0
    /\ loop_next_idx = 0
    /\ loop_end_idx = 0
    /\ loop_description = NoDescription
    /\ loop_st = NoItems

LoopOnly ==
    UNCHANGED << ingestVars, wrapperVars, uploadVars, itemVars, headerVars, mapVars,
                 batchVars >>

\* the cursor stays where it is
AdvanceNot(i) == i

\* idx += 1, next_idx += 1
Advance(i) == i + 1

\* a page is taken: item_start_idx and item_end_idx are found, idx starts
\* at item_start_idx
LoopStart ==
    /\ lpc = "idle"
    /\ \E body \in SeqsUpTo(TableLines, MaxLines - 1) :
           LET lines == <<TableHeader>> \o body
           IN  /\ loop_lines' = lines
               /\ loop_idx' = ItemStart(lines)
               /\ loop_end_idx' = ItemEnd(lines, ItemStart(lines))
               /\ loop_st' = [NoItems EXCEPT !.roles = [i \in 1..Len(lines) |-> <<>>]]
    /\ lpc' = "item"
    /\ loop_next_idx' = 0
    /\ loop_description' = NoDescription
    /\ LoopOnly

\* an iteration of "while idx < item_end_idx" that ends with continue: an
\* empty line, a header line, a line without item number, a number seen
LoopSkip ==
    /\ lpc = "item"
    /\ loop_idx < loop_end_idx
    /\ LET line == loop_lines[loop_idx]
       IN  IF IsSkipped(line) THEN
               loop_st' = [loop_st EXCEPT !.roles = Mark(@, loop_idx, "skip", "")]
           ELSE IF ~StartsWithNumber(line) THEN
               loop_st' = [loop_st EXCEPT !.roles = Mark(@, loop_idx, "skip", "")]
           ELSE /\ AlreadyProcessed(line[1], loop_st.processed)
                /\ loop_st' = [loop_st EXCEPT !.skipped = @ \cup {line[1]},
                                              !.roles = Mark(@, loop_idx, "dup", line[1])]
    /\ loop_idx' = Advance(loop_idx)
    /\ UNCHANGED << lpc, loop_lines, loop_next_idx, loop_end_idx, loop_description >>
    /\ LoopOnly

\* an iteration that finds a new item line: description_lines gets the rest
\* of the line and next_idx = idx + 1
LoopItemLine ==
    /\ lpc = "item"
    /\ loop_idx < loop_end_idx
    /\ LET line == loop_lines[loop_idx]
       IN  /\ ~IsSkipped(line)
           /\ StartsWithNumber(line)
           /\ ~AlreadyProcessed(line[1], loop_st.processed)
           /\ loop_description' = [description_lines |-> <<Tail(line)>>, taken |-> <<>>]
    /\ loop_next_idx' = loop_idx + 1
    /\ lpc' = "look"
    /\ UNCHANGED << loop_lines, loop_idx, loop_end_idx, loop_st >>
    /\ LoopOnly

\* the look-ahead goes on with the next line
LookGoesOn ==
    /\ loop_next_idx < loop_end_idx
    /\ ~IsEndMarker(loop_lines[loop_next_idx])
    /\ IF loop_lines[loop_next_idx] = <<>> THEN TRUE
       ELSE /\ ~IsLikelyNewItem(loop_lines[loop_next_idx])
            /\ ~StopsDescription(loop_lines[loop_next_idx])

\* an iteration of "while next_idx < item_end_idx" that does not break: an
\* empty line is passed, a continuation line is appended
LookStep ==
    /\ lpc = "look"
    /\ LookGoesOn
    /\ loop_description' =
           IF loop_lines[loop_next_idx] = <<>> THEN loop_description
           ELSE [description_lines |->
                     Append(loop_description.description_lines, loop_lines[loop_next_idx]),
                 taken |-> Append(loop_description.taken, loop_next_idx)]
    /\ loop_next_idx' = Advance(loop_next_idx)
    /\ UNCHANGED << lpc, loop_lines, loop_idx, loop_end_idx, loop_st >>
    /\ LoopOnly

\* the look-ahead ends (break, or next_idx reached item_end_idx): the item
\* is appended and idx = next_idx
LoopFinalize ==
    /\ lpc = "look"
    /\ ~LookGoesOn
    /\ LET line == loop_lines[loop_idx]
       IN  loop_st' =
               [items |-> Append(loop_st.items,
                                 BuildItem(line, loop_description.description_lines)),
                processed |-> loop_st.processed \cup {line[1]},
                finalized |-> Append(loop_st.finalized, line[1]),
                skipped |-> loop_st.skipped,
                roles |-> MarkAll(Mark(loop_st.roles, loop_idx, "item", line[1]),
                                  loop_description.taken, "desc", line[1])]
    /\ loop_idx' = ResumeAt(loop_idx, loop_next_idx)
    /\ lpc' = "item"
    /\ loop_description' = NoDescription
    /\ UNCHANGED << loop_lines, loop_next_idx, loop_end_idx >>
    /\ LoopOnly

\* idx < item_end_idx is false: the loop of the page is left
LoopExit ==
    /\ lpc = "item"
    /\ loop_idx >= loop_end_idx
    /\ lpc' = "done"
    /\ UNCHANGED << loop_lines, loop_idx, loop_next_idx, loop_end_idx, loop_description,
                    loop_st >>
    /\ LoopOnly

\* the next page
LoopNextPage ==
    /\ lpc = "done"
    /\ lpc' = "idle"
    /\ loop_lines' = <<>>
    /\ loop_idx' = 0
    /\ loop_next_idx' = 0
    /\ loop_end_idx' = 0
    /\ loop_description' = NoDescription
    /\ loop_st' = NoItems
    /\ LoopOnly

LoopRuns ==
    \/ LoopSkip
    \/ LoopItemLine
    \/ LookStep
    \/ LoopFinalize
    \/ LoopExit

NextLoop ==
    \/ LoopStart
    \/ LoopRuns
    \/ LoopNextPage

\* ------------------------------------------------------------------------
\* grist_uploader.py: the upload of one pair, batch by batch
\* ------------------------------------------------------------------------
PairFiles == {"header", "items"}

\* numbers of records around the multiples of batch_size
RecordCounts ==
    { b * batch_size + r : b \in 0..MaxBatches, r \in {0, 1, batch_size - 1} }

\* the records of a file: the n-th record of the file is n
RecordsOf(n) == [k \in 1..n |-> k]

NoCalls == [f \in PairFiles |-> <<>>]

NoSuccess == [f \in PairFiles |-> "unset"]

NoMoves == [f \in PairFiles |-> FALSE]

InitBatch ==
    /\ bpc = "idle"
    /\ bfile = "header"
    /\ brecords = [f \in PairFiles |-> <<>>]
    /\ bi = 0
    /\ bcalls = NoCalls
    /\ bsuccess = NoSuccess
    /\ bmoved = NoMoves
    /\ blogged = FALSE

BatchOnly ==
    UNCHANGED << ingestVars, wrapperVars, uploadVars, itemVars, headerVars, mapVars,
                 loopVars >>

\* every batch starts at the first record
BatchFromStart(records, i) ==
    SubSeq(records, 1, IF i + batch_size < Len(records) THEN i + batch_size ELSE Len(records))

\* records[i:i+batch_size]
Batch(records, i) ==
    SubSeq(records, i + 1,
           IF i + batch_size < Len(records) THEN i + batch_size ELSE Len(records))

\* upload_csv_to_grist up to the for loop: reading the file may raise (main
\* sets the success flag to False); no mapping or no records returns True
\* without an upload
BeginUpload(f, readable) ==
    /\ bfile' = f
    /\ bi' = 0
    /\ IF ~readable
       THEN /\ bsuccess' = [bsuccess EXCEPT ![f] = "False"]
            /\ bpc' = "returned"
       ELSE IF brecords'[f] = <<>>
       THEN /\ bsuccess' = [bsuccess EXCEPT ![f] = "True"]
            /\ bpc' = "returned"
       ELSE /\ bsuccess' = bsuccess
            /\ bpc' = "batch"

\* main comes to a pair that is no duplicate and uploads the header file
PairStart ==
    /\ bpc = "idle"
    /\ \E nh \in RecordCounts, ni \in RecordCounts :
           brecords' = [f \in PairFiles |->
                           IF f = "header" THEN RecordsOf(nh) ELSE RecordsOf(ni)]
    /\ \E readable \in BOOLEAN : BeginUpload("header", readable)
    /\ UNCHANGED << bcalls, bmoved, blogged >>
    /\ BatchOnly

\* one pass of the for loop: uploader.add_records(table_id, batch) returns
\* or raises; raising returns False at once
SendBatch(ok) ==
    /\ bpc = "batch"
    /\ bi < Len(brecords[bfile])
    /\ bcalls' = [bcalls EXCEPT ![bfile] =
                     Append(@, [batch |-> Batch(brecords[bfile], bi), ok |-> ok])]
    /\ IF ok
       THEN /\ bi' = bi + batch_size
            /\ UNCHANGED << bpc, bsuccess >>
       ELSE /\ bsuccess' = [bsuccess EXCEPT ![bfile] = "False"]
            /\ bpc' = "returned"
            /\ bi' = bi
    /\ UNCHANGED << bfile, brecords, bmoved, blogged >>
    /\ BatchOnly

\* the range is used up: return True
LoopEnd ==
    /\ bpc = "batch"
    /\ bi >= Len(brecords[bfile])
    /\ bsuccess' = [bsuccess EXCEPT ![bfile] = "True"]
    /\ bpc' = "returned"
    /\ UNCHANGED << bfile, brecords, bi, bcalls, bmoved, blogged >>
    /\ BatchOnly

\* "if header_success:" the items file is uploaded, else items_success = False
AfterHeader ==
    /\ bpc = "returned"
    /\ bfile = "header"
    /\ brecords' = brecords
    /\ IF bsuccess["header"] = "True"
       THEN \E readable \in BOOLEAN : BeginUpload("items", readable)
       ELSE /\ bsuccess' = [bsuccess EXCEPT !["items"] = "False"]
            /\ bfile' = "items"
            /\ bpc' = "move"
            /\ bi' = bi
    /\ UNCHANGED << bcalls, bmoved, blogged >>
    /\ BatchOnly

\* upload_csv_to_grist has returned for the items file
AfterItems ==
    /\ bpc = "returned"
    /\ bfile = "items"
    /\ bpc' = "move"
    /\ UNCHANGED << bfile, brecords, bi, bcalls, bsuccess, bmoved, blogged >>
    /\ BatchOnly

\* "if header_success and items_success:" both files are moved, and the
\* invoice is logged when both moves succeeded
MoveAndLog(moved_header, moved_items) ==
    /\ bpc = "move"
    /\ IF bsuccess["header"] = "True" /\ bsuccess["items"] = "True"
       THEN /\ bmoved' = [f \in PairFiles |->
                             IF f = "header" THEN moved_header ELSE moved_items]
            /\ blogged' = Logged(moved_header, moved_items)
       ELSE UNCHANGED << bmoved, blogged >>
    /\ bpc' = "done"
    /\ UNCHANGED << bfile, brecords, bi, bcalls, bsuccess >>
    /\ BatchOnly

\* the for loop of main goes to the next prefix
NextPair ==
    /\ bpc = "done"
    /\ bpc' = "idle"
    /\ bfile' = "header"
    /\ brecords' = [f \in PairFiles |-> <<>>]
    /\ bi' = 0
    /\ bcalls' = NoCalls
    /\ bsuccess' = NoSuccess
    /\ bmoved' = NoMoves
    /\ blogged' = FALSE
    /\ BatchOnly

NextBatch ==
    \/ PairStart
    \/ \E ok \in BOOLEAN : SendBatch(ok)
    \/ LoopEnd
    \/ AfterHeader
    \/ AfterItems
    \/ \E moved_header \in BOOLEAN, moved_items \in BOOLEAN :
           MoveAndLog(moved_header, moved_items)
    \/ NextPair

Init ==
    /\ InitIngest /\ InitWrapper /\ InitUpload /\ InitItems /\ InitHeader /\ InitMap
    /\ InitLoop /\ InitBatch

\* Documents of every kind arrive, empty or complete; nobody appends.
Next ==
    \/ \E f \in Files, doc \in Docs, size \in {0, FullSize} : CreateFile(f, doc, size)
    \/ \E f \in Files : RemoveFile(f)
    \/ StartHandle
    \/ CheckExists
    \/ PollSize
    \/ ProcessHeader
    \/ ProcessItems
    \/ \E oserr \in BOOLEAN : MoveArchive(oserr)
    \/ \E oserr \in BOOLEAN : MoveFallback(oserr)
    \/ \E oserr \in BOOLEAN : MoveError(oserr)

Spec == Init /\ [][Next]_vars

SpecWrapper == Init /\ [][NextWrapper]_vars

InitUploadRun ==
    /\ InitIngest /\ InitWrapper /\ InitUploadAny /\ InitItems /\ InitHeader /\ InitMap
    /\ InitLoop /\ InitBatch

SpecUpload == InitUploadRun /\ [][NextUpload]_vars

SpecItems == Init /\ [][NextItems]_vars

SpecTable == Init /\ [][NextTable]_vars

SpecTax == Init /\ [][NextTax]_vars

SpecHeader == Init /\ [][NextHeader]_vars

\* the interpreter goes on running the loops
SpecLoop == Init /\ [][NextLoop]_vars /\ WF_vars(LoopRuns)

SpecMap == Init /\ [][NextMap]_vars

SpecDocs == Init /\ [][NextDocs]_vars

\* A writer appends to well-formed documents while the handler polls.
GoodDoc == [fault |-> "none", date |-> <<5, "Apr", 25>>]

NextStable ==
    \/ \E f \in Files, size \in 0..FullSize : CreateFile(f, GoodDoc, size)
    \/ \E f \in Files : AppendFile(f)
    \/ \E f \in Files : RemoveFile(f)
    \/ StartHandle
    \/ CheckExists
    \/ PollSize
    \/ ProcessHeader
    \/ ProcessItems
    \/ \E oserr \in BOOLEAN : MoveArchive(oserr)
    \/ \E oserr \in BOOLEAN : MoveFallback(oserr)
    \/ \E oserr \in BOOLEAN : MoveError(oserr)

SpecStable == Init /\ [][NextStable]_vars

\* ------------------------------------------------------------------------
\* InvDataEx.py
\* ------------------------------------------------------------------------
\* PDFHandler.on_created (after time.sleep(1)) / process_existing_files:
\* handle_file starts with process_pdf, with no existence or stability check
LegacyStart ==
    /\ pc = "idle"
    /\ ~crashed
    /\ queue # <<>>
    /\ cur' = Head(queue)
    /\ queue' = Tail(queue)
    /\ handled' = [handled EXCEPT ![Head(queue)] = @ + 1]
    /\ seen' = <<>>
    /\ run' = [NoRun EXCEPT !.file = Head(queue)]
    /\ pc' = "legacy_process"
    /\ UNCHANGED << fs, created, archiveDir, errorDir, outputDir, crashed >>
    /\ IngestOnly

\* process_pdf of InvDataEx.py: reads every page, raises ValueError on an
\* invoice date strptime rejects, appends the rows to the month's CSV last
LegacyProcess ==
    /\ pc = "legacy_process"
    /\ LET f == cur
           doc == fs[f].doc
           raises == ~fs[f].present \/ doc.fault # "none" \/ ~Strptime(doc.date)
       IN  IF raises
           THEN /\ run' = [run EXCEPT !.called = TRUE, !.result = "false",
                                      !.read = IF fs[f].present THEN fs[f].size ELSE -1,
                                      !.doc = doc]
                /\ outputDir' = outputDir
                /\ pc' = "legacy_move_error"
           ELSE /\ run' = [run EXCEPT !.called = TRUE, !.result = "true",
                                      !.read = fs[f].size, !.doc = doc,
                                      !.wrote = {"Invoices"}]
                /\ outputDir' = outputDir \cup {CsvName(f, doc, "Invoices")}
                /\ pc' = "legacy_move_archive"
    /\ UNCHANGED << fs, queue, created, handled, cur, seen, archiveDir,
                    errorDir, crashed >>
    /\ IngestOnly

\* handle_file of InvDataEx.py: move_file(file_path, ARCHIVE_DIR) inside try
LegacyMoveArchive(oserr) ==
    /\ pc = "legacy_move_archive"
    /\ IF MoveRaises(cur, oserr)
       THEN /\ pc' = "legacy_move_error"
            /\ UNCHANGED << fs, archiveDir, run >>
       ELSE /\ fs' = [fs EXCEPT ![cur] = NoFile]
            /\ archiveDir' = archiveDir \cup {Stamped(cur)}
            /\ run' = [run EXCEPT !.moved = "archive"]
            /\ pc' = "idle"
    /\ UNCHANGED << queue, created, handled, cur, seen, errorDir, outputDir,
                    crashed >>
    /\ IngestOnly

\* handle_file of InvDataEx.py: move_file(file_path, ERROR_DIR) inside the
\* except block; an exception raised here leaves handle_file
LegacyMoveError(oserr) ==
    /\ pc = "legacy_move_error"
    /\ IF MoveRaises(cur, oserr)
       THEN /\ crashed' = TRUE
            /\ pc' = "dead"
            /\ UNCHANGED << fs, errorDir, run >>
       ELSE /\ fs' = [fs EXCEPT ![cur] = NoFile]
            /\ errorDir' = errorDir \cup {Stamped(cur)}
            /\ run' = [run EXCEPT !.moved = "error"]
            /\ pc' = "idle"
            /\ crashed' = crashed
    /\ UNCHANGED << queue, created, handled, cur, seen, archiveDir, outputDir >>
    /\ IngestOnly

NextLegacy ==
    \/ \E f \in Files, doc \in Docs, size \in {0, FullSize} : CreateFile(f, doc, size)
    \/ \E f \in Files : RemoveFile(f)
    \/ LegacyStart
    \/ LegacyProcess
    \/ \E oserr \in BOOLEAN : LegacyMoveArchive(oserr)
    \/ \E oserr \in BOOLEAN : LegacyMoveError(oserr)

SpecLegacy == Init /\ [][NextLegacy]_vars

\* ------------------------------------------------------------------------
\* Claims about the ingestion pipeline
\* ------------------------------------------------------------------------
\* C1: when the invoice date text cannot be parsed as a D-Mon-YY calendar
\* date (the empty text included), process_pdf reports failure and the
\* source file is never moved to the archive directory.
C1_InvalidDateFails ==
    (run.called /\ run.doc.fault = "none" /\ ~Strptime(run.doc.date))
        => (run.result # "true" /\ run.moved # "archive")

\* C2: when the processing of a document has failed, this call has written
\* neither a Header CSV nor an Items CSV for it.
C2_NoPartialCsv ==
    run.result = "false" => run.wrote = {}

\* C3: no failure while parsing or moving a file leaves handle_file, so the
\* ingest loop stays alive for the files that follow.
C3_NeverPropagates ==
    ~crashed

\* C4 (as amended): process_pdf is called only after is_file_stable returned
\* True, that is after two consecutive polls within the retry budget read
\* the same non-zero size.
C4_ProcessOnlyAfterStable ==
    run.called =>
        /\ Len(seen) >= 2
        /\ Len(seen) <= Retries
        /\ seen[Len(seen)] = seen[Len(seen) - 1]
        /\ seen[Len(seen)] > 0

\* the writer appended between the first two polls, the next two polls
\* agreed, and process_pdf has read the file
C4_Witness ==
    /\ run.called
    /\ run.read # -1
    /\ Len(seen) = 3
    /\ seen[1] < seen[2]

\* C4 (as claimed): the parser never reads a file its writer has not
\* finished.
C4_NeverReadsPartial ==
    run.read # -1 => run.read = FullSize

\* C5: a call of handle_file that finds the file gone, before or during the
\* stability check, returns without calling process_pdf, without moving
\* anything and without raising; a file is handled at most once per
\* creation event.
C5_VanishedFileAbandoned ==
    /\ run.missing =>
          /\ pc = "idle"
          /\ ~run.called
          /\ run.moved = "none"
          /\ ~crashed
    /\ \A f \in Files : handled[f] <= created[f]

\* the file vanished after is_file_stable had read its size at least once
C5_Witness ==
    /\ run.missing
    /\ Len(seen) >= 1
    /\ pc = "idle"

\* ------------------------------------------------------------------------
\* Claims about the wrapper
\* ------------------------------------------------------------------------
LiveUploaders == {p \in alive : procs[p] = "grist_uploader.py"}

\* an iteration of the supervision loop
TickStep == wpc = "loop" /\ wpc' = "loop" /\ current_time' # current_time

\* C6: the wrapper never has two uploader processes alive; an iteration in
\* which an upload cycle is due while the previous uploader has not exited
\* starts no process for it and uses the cycle up; an iteration never stops
\* or replaces an extractor that is alive, whatever the uploader does.
C6_SingleUploader ==
    /\ [](Cardinality(LiveUploaders) <= 1)
    /\ [][ (TickStep
            /\ current_time' - last_upload_time >= UPLOAD_INTERVAL
            /\ uploader_process # 0 /\ uploader_process \in alive)
           => /\ uploader_process' = uploader_process
              /\ LiveUploaders' = LiveUploaders
              /\ last_upload_time' = current_time' ]_vars
    /\ [][ (TickStep /\ claude_process \in alive)
           => /\ claude_process' = claude_process
              /\ claude_process \in alive' ]_vars

\* a due cycle was skipped because the previous uploader was still running,
\* with the extractor alive
C6_Witness ==
    /\ cycle = "skipped"
    /\ uploader_process \in alive
    /\ claude_process \in alive
    /\ Cardinality(LiveUploaders) = 1

\* ------------------------------------------------------------------------
\* Claims about the uploader
\* ------------------------------------------------------------------------
\* C7: over any sequence of upload runs, failed uploads and failed moves
\* included, the uploader adds the header row of an invoice number to the
\* remote header table at most once.
C7_HeaderRowsAddedOnce ==
    \A inv \in Invoices : added[inv] <= 1

\* C8: a run that starts without a log file checks duplicates against
\* exactly the non-empty invoice numbers of the remote header table and
\* creates the log file with exactly those numbers.
C8_BootstrapFromRemote ==
    [][ (upc = "idle" /\ upc' = "pairs" /\ ~logExists)
        => /\ processed' = RemoteInvoiceSet
           /\ logExists'
           /\ logLines' = RemoteInvoiceSet ]_vars

C10_StrictlyIncreasing ==
    ipc = "done" =>
        \A i \in 1..(Len(items) - 1) :
            IntOf(items[i].item_no) < IntOf(items[i + 1].item_no)

\* C11: when items were finalized out of order, the returned list is sorted
\* and keeps every item, and an ItemSegmentationAnomaly warning was raised for
\* the item whose number did not exceed the one finalized before it.
OutOfOrder ==
    \E i \in 1..(Len(finalized) - 1) : IntOf(finalized[i + 1]) <= IntOf(finalized[i])

C11_AnomalyWarned ==
    (ipc = "done" /\ OutOfOrder) =>
        /\ Len(items) = Len(finalized)
        /\ \A i \in 1..(Len(items) - 1) :
               IntOf(items[i].item_no) <= IntOf(items[i + 1].item_no)
        /\ "ItemSegmentationAnomaly" \in warnings

\* ------------------------------------------------------------------------
\* Claims about the values and the description of an item
\* ------------------------------------------------------------------------
StandardLine ==
    <<"1", "Widget", "Assembly", "123456", "5", "NOS", "10.50", "NOS", "52.50">>

ServiceLine == <<"2", "Local", "Repairs", "998877", "1500.00">>

\* C12: the line "1 Widget Assembly 123456 5 NOS 10.50 NOS 52.50" yields
\* item_no 1, quantity 5, rate 10.50, amount 52.50, HSN 123456 and the
\* description "Widget Assembly"; a line with a quantity and two decimals has
\* the first decimal as rate, the second as amount and its 6-to-8-digit token
\* as HSN code.
C12_StandardItem ==
    \A k \in 1..Len(items) :
        LET it == items[k]
        IN  /\ it.line = StandardLine =>
                   /\ it.item_no = "1"
                   /\ it.qty_value = "5"
                   /\ it.rate = "10.50"
                   /\ it.amount = "52.50"
                   /\ it.hsn_sac = "123456"
                   /\ it.description = <<"Widget", "Assembly">>
            /\ (QtyPositions(it.line) # {} /\ Len(Decimals(it.line)) >= 2) =>
                   /\ it.rate = Decimals(it.line)[1]
                   /\ it.amount = Decimals(it.line)[2]
                   /\ \A i \in 2..Len(it.line) :
                          HasHsnLike(it.line[i]) => it.hsn_sac = it.line[i]

\* C13: the line "2 Local Repairs 998877 1500.00" yields item_no 2, no
\* quantity, no rate and amount 1500.00; an item line without a quantity and
\* unit pair never gets a quantity or a rate.
C13_ServiceItem ==
    \A k \in 1..Len(items) :
        LET it == items[k]
        IN  /\ it.line = ServiceLine =>
                   /\ it.item_no = "2"
                   /\ it.amount = "1500.00"
            /\ QtyPositions(it.line) = {} =>
                   /\ it.qty_value = ""
                   /\ it.qty_unit = ""
                   /\ it.rate = ""

\* the service line was returned as an item
C13_Witness ==
    /\ ipc = "done"
    /\ \E k \in 1..Len(items) : items[k].line = ServiceLine

\* C14: every item has a quantity and a rate, or neither.
C14_QuantityIffRate ==
    \A k \in 1..Len(items) : (items[k].qty_value = "") <=> (items[k].rate = "")

\* ------------------------------------------------------------------------
\* Claims about the lines of a page
\* ------------------------------------------------------------------------
\* a line that is not blank, does not start with an integer token and is
\* neither a tax line, nor a bare total, nor an end marker
IsPlainText(line) ==
    /\ line # <<>>
    /\ line[1] \notin AllIntTokens
    /\ ~IsTaxLine(line)
    /\ ~IsLikelyTotalLine(line)
    /\ ~IsEndMarker(line)

\* the positions of the page whose line started an item
ItemPositions == {i \in 1..Len(page) : \E r \in AllIntTokens :
                                         roles[i] = <<[kind |-> "item", item_no |-> r]>>}

\* the lines of the page that were appended to the description of item n
ConsumedBy(n) ==
    LET idxs == SelectSeq([k \in 1..Len(page) |-> k],
                          LAMBDA j : roles[j] = <<[kind |-> "desc", item_no |-> n]>>)
    IN  [k \in 1..Len(idxs) |-> page[idxs[k]]]

\* the item of the list with number n
ItemNumbered(n) == items[CHOOSE k \in 1..Len(items) : items[k].item_no = n]

\* the nearest line before position j that is not blank, 0 when there is none
PrevNonBlank(j) ==
    LET ps == {p \in 1..(j - 1) : page[p] # <<>>}
    IN  IF ps = {} THEN 0 ELSE CHOOSE p \in ps : \A q \in ps : q <= p

HeaderPosition ==
    LET hs == {i \in 1..Len(page) : IsTableHeader(page[i])}
    IN  IF hs = {} THEN 0 ELSE CHOOSE i \in hs : \A q \in hs : i <= q

\* the positions of the end markers after the table header
MarkerPositions ==
    {i \in 1..Len(page) : HeaderPosition # 0 /\ i > HeaderPosition /\ IsEndMarker(page[i])}

\* C20: on the page taken last, no line at or after an end marker that
\* follows the table header started an item, was appended to a description
\* or was looked at by the item loop at all.
C20_NothingAfterEndMarker ==
    \A m \in MarkerPositions : \A j \in m..Len(page) : roles[j] = <<>>

\* an item before the end marker and a line after it that looks like an item
C20_Witness ==
    \E m \in MarkerPositions :
        /\ \E i \in ItemPositions : i < m
        /\ \E j \in (m + 1)..Len(page) : IsLikelyNewItem(page[j])

\* ------------------------------------------------------------------------
\* Claims about the moves of handle_file
\* ------------------------------------------------------------------------
\* C19: a call of handle_file that ran process_pdf ends with a move; when the
\* move it tries first succeeds, the file leaves the input directory and its
\* timestamped name is added to the archive directory, and only there, if
\* process_pdf returned True, and to the error directory, and only there, if
\* it returned False.
C19_MovedToOnePlace ==
    [][ /\ (pc \in {"header", "items"}) =>
               pc' \in {"header", "items", "move_archive", "move_error"}
        /\ (pc = "move_archive" /\ pc' = "idle") =>
               /\ run.result = "true"
               /\ ~fs'[cur].present
               /\ archiveDir' = archiveDir \cup {Stamped(cur)}
               /\ errorDir' = errorDir
        /\ (pc = "move_error" /\ run'.moved = "error") =>
               /\ run.result = "false"
               /\ ~fs'[cur].present
               /\ errorDir' = errorDir \cup {Stamped(cur)}
               /\ archiveDir' = archiveDir
      ]_vars

\* one file was archived after another went to the error directory, without
\* a failed move in between
C19_Witness ==
    /\ pc = "idle"
    /\ run.moved = "archive"
    /\ run.result = "true"
    /\ errorDir # {}
    /\ Stamped(run.file) \in archiveDir
    /\ ~fs[run.file].present

\* ------------------------------------------------------------------------
\* Claims about the header
\* ------------------------------------------------------------------------
\* C16: header extraction does not raise, whatever the lines of the first
\* page; the only failure is an invoice date that is no calendar date.
C16_HeaderNeverRaises ==
    hpc \in {"done", "legacy_done"} =>
        \/ hdr.raised = ""
        \/ hdr.raised = "ValueError" /\ ~Strptime(hdr.invoice_date)

\* C17: the address of a party block holds each distinct address line once,
\* in first-seen order.
C17_AddressDeduplicated ==
    (hpc \in {"done", "legacy_done"} /\ hdr.raised = "") =>
        /\ hdr.consignee_address = Dedupe(hdr.consignee_address)
        /\ hdr.buyer_address = Dedupe(hdr.buyer_address)

\* ------------------------------------------------------------------------
\* Claims about documents parsed in a row
\* ------------------------------------------------------------------------
\* C18: whatever documents were parsed before, the items returned for a
\* document are those of parsing its pages alone and its header is that of
\* its first page alone; no item number an earlier document processed
\* suppresses an item.
C18_IndependentOfHistory ==
    /\ ipc = "done" => items = ParseAlone(docText)
    /\ hpc = "done" => hdr = ExtractHeaderFromPdf(hlines)

\* a later document returns an item whose number an earlier document
\* processed
C18_Witness ==
    /\ ipc = "done"
    /\ hpc = "done"
    /\ docs >= 2
    /\ \E k \in 1..Len(items) : items[k].item_no \in earlier


\* ------------------------------------------------------------------------
\* Claims about the page boundary
\* ------------------------------------------------------------------------
\* C21: on the page taken last, no line at or before the first table header
\* line was looked at by the item loop, and on a page without a table header
\* line no line was: such a page adds no item, whatever the page before it
\* held.
C21_TableStateReset ==
    \A j \in 1..Len(page) :
        (HeaderPosition = 0 \/ j <= HeaderPosition) => roles[j] = <<>>

\* the first page ended inside the table, and the second page, without a
\* table header, holds an item line whose number was not processed
C21_Witness ==
    /\ pagesRead = 2
    /\ Len(items) >= 1
    /\ ItemStart(docText[1]) # 0
    /\ ItemEnd(docText[1], ItemStart(docText[1])) = Len(docText[1]) + 1
    /\ HeaderPosition = 0
    /\ \E j \in 1..Len(page) :
           StartsWithNumber(page[j]) /\ page[j][1] \notin processed_item_numbers


\* ------------------------------------------------------------------------
\* Claims about numbered lines without figures
\* ------------------------------------------------------------------------
\* a line that starts with a number and holds no quantity with unit, no
\* decimal and no HSN code
IsBareNumbered(line) ==
    /\ StartsWithNumber(line)
    /\ QtyPositions(line) = {}
    /\ Decimals(line) = <<>>
    /\ ~HasHsnAnywhere(line)

\* position j of the page taken last lies inside the table
InTable(j) ==
    /\ HeaderPosition # 0
    /\ j > HeaderPosition
    /\ j < ItemEnd(page, HeaderPosition + 1)

\* line i of the page taken last was appended as the item numbered n
StartedItem(i, n) ==
    \E k \in 1..Len(roles[i]) : roles[i][k] = [kind |-> "item", item_no |-> n]

\* the number of line j was in processed_item_numbers before the loops came
\* to line j: put there by an earlier page or by an earlier line of the page
ProcessedBefore(j) ==
    \/ /\ page[j][1] \in processed_item_numbers
       /\ \A i \in 1..Len(page) : ~StartedItem(i, page[j][1])
    \/ \E i \in 1..(j - 1) : StartedItem(i, page[j][1])

\* C22: on the page taken last, every line inside the table that starts
\* with a number not processed before, and holds no figures, is an item of
\* its own whose description starts with the rest of the line and whose
\* quantity, rate and amount are empty.
C22_BareNumberedLineIsItem ==
    \A j \in 1..Len(page) :
        (InTable(j) /\ IsBareNumbered(page[j]) /\ ~ProcessedBefore(j)) =>
               /\ StartedItem(j, page[j][1])
               /\ ItemNumbered(page[j][1]).description_lines[1] = Tail(page[j])
               /\ ItemNumbered(page[j][1]).qty_value = ""
               /\ ItemNumbered(page[j][1]).rate = ""
               /\ ItemNumbered(page[j][1]).amount = ""


\* ------------------------------------------------------------------------
\* Claims about tax lines and bare totals
\* ------------------------------------------------------------------------
\* line j of the page taken last was appended to a description
Consumed(j) == \E k \in 1..Len(roles[j]) : roles[j][k].kind = "desc"

\* line j of the page taken last is a tax line or a bare total
IsTaxOrTotal(j) == IsTaxLine(page[j]) \/ IsLikelyTotalLine(page[j])

\* C23: on the page taken last, a tax line or bare total was appended to no
\* description by the look-ahead, and a line after it that was appended
\* belongs to an item that starts at or after the tax line.
C23_TaxLineStopsDescription ==
    \A j \in 1..Len(page) :
        IsTaxOrTotal(j) =>
            /\ ~Consumed(j)
            /\ \A q \in (j + 1)..Len(page) : \A k \in 1..Len(roles[q]) :
                   roles[q][k].kind = "desc" =>
                       \E i \in j..(q - 1) : StartedItem(i, roles[q][k].item_no)

\* an item line, a tax line right after it and a plain line after that
\* which no item took
C23_Witness ==
    \E i \in 1..Len(page) :
        /\ i + 2 <= Len(page)
        /\ \E n \in AllIntTokens : StartedItem(i, n)
        /\ IsTaxLine(page[i + 1])
        /\ ~Consumed(i + 1)
        /\ IsPlainText(page[i + 2])
        /\ ~Consumed(i + 2)

\* C23 as stated: the text of a tax line or bare total is in no item's
\* description, neither appended by the look-ahead nor as an item line.
C23_TaxLineInNoDescription ==
    \A j \in 1..Len(page) :
        IsTaxOrTotal(j) =>
            /\ ~Consumed(j)
            /\ \A n \in AllIntTokens : ~StartedItem(j, n)


\* ------------------------------------------------------------------------
\* Claims about the invoice date
\* ------------------------------------------------------------------------
\* C24: the invoice date of the header is taken from no line that carries
\* the Ack Date label.
C24_NeverFromAckDate ==
    (hpc = "done" /\ hdr.date_line # 0) => ~HasAckDate(hlines[hdr.date_line])


\* ------------------------------------------------------------------------
\* Claims about the column mapping
\* ------------------------------------------------------------------------
\* the values the order exact label, normalized label, id gives
LabelFirst(cols, csv_header) ==
    LET clean_csv_header == StripHeader(csv_header)
    IN  IF \E i \in 1..Len(cols) : cols[i].label = clean_csv_header
        THEN {GristColumns(cols, clean_csv_header)}
        ELSE IF NormalizedLabelAt(cols, clean_csv_header) # 0
        THEN {GristColumns(cols, cols[NormalizedLabelAt(cols, clean_csv_header)].label)}
        ELSE IF \E i \in 1..Len(cols) : cols[i].id = clean_csv_header
        THEN {clean_csv_header}
        ELSE IF NormalizedIds(cols, clean_csv_header) # {}
        THEN NormalizedIds(cols, clean_csv_header)
        ELSE {""}

\* C25: every CSV header is mapped by the first of: exact label match,
\* normalized label match, id match; a header that matches nothing is left
\* out.
C25_LabelBeforeId ==
    mpc = "mapped" =>
        \A h \in DOMAIN mapping : mapping[h] \in LabelFirst(columns_data, h)


\* ------------------------------------------------------------------------
\* Claims about the loops of a page
\* ------------------------------------------------------------------------
\* C26: every iteration of the item loop moves idx forward, by one line when
\* the line is skipped and to next_idx >= idx + 1 after an item; every
\* iteration of the look-ahead that does not end it moves next_idx forward;
\* and the loops of a page come to their end.
C26_LoopsTerminate ==
    /\ [][/\ (lpc = "item" /\ lpc' = "item") => loop_idx' = loop_idx + 1
          /\ (lpc = "look" /\ lpc' = "item") =>
                 loop_idx' = loop_next_idx /\ loop_idx' >= loop_idx + 1
          /\ (lpc = "look" /\ lpc' = "look") => loop_next_idx' = loop_next_idx + 1
          /\ (lpc = "item" /\ lpc' = "look") => loop_next_idx' = loop_idx + 1]_vars
    /\ (lpc \in {"item", "look"}) ~> (lpc = "done")

\* the loops of a page ended after a skipped line, an item and a
\* continuation line
C26_Witness ==
    /\ lpc = "done"
    /\ \E i, j, q \in 1..Len(loop_lines) :
           /\ loop_st.roles[i] = <<[kind |-> "skip", item_no |-> ""]>>
           /\ \E n \in AllIntTokens :
                  /\ loop_st.roles[j] = <<[kind |-> "item", item_no |-> n]>>
                  /\ loop_st.roles[q] = <<[kind |-> "desc", item_no |-> n]>>


\* ------------------------------------------------------------------------
\* Claims about the order of upload, move and log
\* ------------------------------------------------------------------------
\* the step is an iteration of the loop over the prefixes, for a pair with
\* both files and an invoice number
PairStep ==
    /\ upc = "pairs"
    /\ todo # <<>>
    /\ todo' = Tail(todo)
    /\ csvDir[Head(todo)].header
    /\ csvDir[Head(todo)].items
    /\ csvDir[Head(todo)].inv # ""

\* C27: an iteration adds an invoice number to the processed set or to the
\* log only when the header upload succeeded, the items upload succeeded and
\* both files of the pair are in the Success folder, and it adds the number
\* of that pair; the items upload is tried only after a header upload that
\* succeeded.
C27_LoggedAfterUploadsAndMoves ==
    [][PairStep =>
           /\ (processed' # processed \/ logLines' # logLines) =>
                  /\ lastUpload'.header
                  /\ lastUpload'.items
                  /\ File(Head(todo), "Header") \in successDir'
                  /\ File(Head(todo), "Items") \in successDir'
                  /\ processed' = processed \cup {csvDir[Head(todo)].inv}
                  /\ logLines' \subseteq logLines \cup {csvDir[Head(todo)].inv}
           /\ lastUpload'.items_tried => lastUpload'.header]_vars

\* a pair was uploaded, moved and logged
C27_Witness ==
    /\ upc = "pairs"
    /\ lastUpload.header
    /\ lastUpload.items
    /\ \E p \in Prefixes :
           /\ File(p, "Header") \in successDir
           /\ File(p, "Items") \in successDir
           /\ csvDir[p].inv \in processed
           /\ csvDir[p].inv \in logLines

SpecBatch == Init /\ [][NextBatch]_vars

RECURSIVE Joined(_)
\* the batches of the calls, one after the other
Joined(calls) ==
    IF calls = <<>> THEN <<>> ELSE Joined(SubSeq(calls, 1, Len(calls) - 1))
                                       \o calls[Len(calls)].batch

\* a call of add_records for file f raised
FailedCall(f) == \E j \in 1..Len(bcalls[f]) : ~bcalls[f][j].ok

\* C29: the batches sent for a file, one after the other, are the first
\* records of the file in file order, each batch of 1 to 100 records, and all
\* the records once upload_csv_to_grist has returned True; a batch that
\* fails is the last one sent for the file, the call returns False, and the
\* files of the pair are neither moved nor logged as processed.
C29_BatchesInOrder ==
    /\ \A f \in PairFiles :
          /\ \A j \in 1..Len(bcalls[f]) :
                Len(bcalls[f][j].batch) \in 1..batch_size
          /\ Len(Joined(bcalls[f])) <= Len(brecords[f])
          /\ Joined(bcalls[f]) = SubSeq(brecords[f], 1, Len(Joined(bcalls[f])))
          /\ bsuccess[f] = "True" => Joined(bcalls[f]) = brecords[f]
          /\ \A j \in 1..Len(bcalls[f]) : ~bcalls[f][j].ok => j = Len(bcalls[f])
          /\ FailedCall(f) => bsuccess[f] = "False"
    /\ (\E f \in PairFiles : FailedCall(f)) =>
          /\ blogged = FALSE
          /\ bmoved = NoMoves

\* the second batch of an items file of more than two batches has failed and
\* main is through with the pair
C29_Witness ==
    /\ bpc = "done"
    /\ Len(brecords["items"]) > batch_size + batch_size
    /\ Len(bcalls["items"]) = 2
    /\ bcalls["items"][1].ok
    /\ ~bcalls["items"][2].ok
    /\ Len(bcalls["header"]) = 2
    /\ Len(bcalls["header"][2].batch) = 1


\* extractor processes started so far, and those of them still running
Extractors == {p \in DOMAIN procs : procs[p] = "claude_InvDataEx.py"}

LiveExtractors == Extractors \cap alive

\* C30: an iteration of the supervision loop that finds the extractor exited
\* starts a new extractor process, which is the only one then alive; an
\* iteration that finds it alive starts none; at most one extractor process
\* is alive at any time.
C30_SingleExtractor ==
    /\ [](Cardinality(LiveExtractors) <= 1)
    /\ [][ (TickStep /\ claude_process # 0 /\ claude_process \notin alive)
           => /\ claude_process' \in Extractors' \ Extractors
              /\ Extractors' = Extractors \cup {claude_process'}
              /\ LiveExtractors' = {claude_process'} ]_vars
    /\ [][ (TickStep /\ claude_process \in alive) => Extractors' = Extractors ]_vars

\* the extractor died and was restarted, and the new one runs beside an
\* uploader
C30_Witness ==
    /\ wpc = "loop"
    /\ Cardinality(Extractors) = 2
    /\ LiveExtractors = {claude_process}
    /\ Cardinality(LiveUploaders) = 1

====
